---------------------------- MODULE Spec2Model ----------------------------
(***************************************************************************)
(* Model of the repository-analysis engine of zephyr_whatsnew.py:          *)
(* ZephyrRepoAnalyzer.analyze, the area classifier it uses, the            *)
(* outstanding-patch fold and the fuzzy merge matcher.                     *)
(*                                                                         *)
(* Text is modelled as a sequence of one-character strings, so that        *)
(* prefixes, suffixes, splitting, stripping and edit distance are computed *)
(* and not assumed.  Commits are opaque handles; their attributes are      *)
(* looked up in tables, as the code looks them up through pygit2.          *)
(***************************************************************************)
EXTENDS Integers, Sequences, FiniteSets, TLC

\* Python's None, as an area and as a record/exception slot.
None == "None"

\* Python's None, as the result of shortlog_area_prefix (a text otherwise).
NoPrefix == <<"None">>

(***************************************************************************)
(* Text helpers (Python str methods used by the code)                      *)
(***************************************************************************)

\* str.startswith(prefix)
StartsWith(s, p) ==
  /\ Len(p) <= Len(s)
  /\ SubSeq(s, 1, Len(p)) = p

\* str.endswith(suffix)
EndsWith(s, p) ==
  /\ Len(p) <= Len(s)
  /\ SubSeq(s, Len(s) - Len(p) + 1, Len(s)) = p

\* s[n:]
DropFirst(s, n) == SubSeq(s, n + 1, Len(s))

\* str.lstrip(chars) / str.rstrip(chars) / str.strip(chars)
RECURSIVE LStrip(_, _)
LStrip(s, cs) ==
  IF s # <<>> /\ Head(s) \in cs THEN LStrip(Tail(s), cs) ELSE s

RECURSIVE RStrip(_, _)
RStrip(s, cs) ==
  IF s # <<>> /\ s[Len(s)] \in cs THEN RStrip(SubSeq(s, 1, Len(s) - 1), cs) ELSE s

StripChars(s, cs) == RStrip(LStrip(s, cs), cs)

\* The white space str.strip() removes.
Whitespace == {" ", "\t"}

\* c in s
Contains(s, c) == \E i \in 1..Len(s) : s[i] = c

\* str.find(c) as a 1-based position; 0 when c does not occur.
Find(s, c) ==
  IF Contains(s, c) THEN CHOOSE i \in 1..Len(s) : s[i] = c /\ \A j \in 1..(i - 1) : s[j] # c
  ELSE 0

\* Case folding of re.IGNORECASE, on the ASCII letters.
UpperCase == <<"A","B","C","D","E","F","G","H","I","J","K","L","M",
               "N","O","P","Q","R","S","T","U","V","W","X","Y","Z">>

LowerCase == <<"a","b","c","d","e","f","g","h","i","j","k","l","m",
               "n","o","p","q","r","s","t","u","v","w","x","y","z">>

LowerCh(c) ==
  IF \E i \in 1..26 : UpperCase[i] = c
  THEN LowerCase[CHOOSE i \in 1..26 : UpperCase[i] = c]
  ELSE c

(***************************************************************************)
(* Regular expressions of the catalog.  A pattern is a sequence of items;  *)
(* an item is an atom (a literal character, '.', or a group) with a        *)
(* repetition: "1" (exactly once), "?" (optional), "*" (any number).       *)
(***************************************************************************)

Chr(c) == [k |-> "chr", c |-> c, g |-> <<>>, rep |-> "1"]

AnyChar == [k |-> "any", c |-> "", g |-> <<>>, rep |-> "1"]

Grp(items) == [k |-> "grp", c |-> "", g |-> items, rep |-> "1"]

Opt(item) == [item EXCEPT !.rep = "?"]

Star(item) == [item EXCEPT !.rep = "*"]

Lit(s) == [i \in 1..Len(s) |-> Chr(s[i])]

\* The suffix '(/.*)?' that most directory-like prefixes carry.
SubPath == <<Opt(Grp(Lit(<<"/">>) \o <<Star(AnyChar)>>))>>

RECURSIVE MatchItems(_, _, _, _)
RECURSIVE AtomStep(_, _, _)
RECURSIVE StarStep(_, _, _)

\* Positions reachable from a position of P by matching the atom once.
AtomStep(item, s, P) ==
  CASE item.k = "chr" ->
         {p + 1 : p \in {q \in P : q <= Len(s) /\ LowerCh(s[q]) = LowerCh(item.c)}}
    [] item.k = "any" ->
         {p + 1 : p \in {q \in P : q <= Len(s)}}
    [] item.k = "grp" ->
         MatchItems(item.g, 1, s, P)

\* Positions reachable by matching the atom any number of times.
StarStep(item, s, P) ==
  LET N == P \cup AtomStep(item, s, P)
  IN  IF N = P THEN P ELSE StarStep(item, s, N)

\* Positions reachable from a position of P by matching items[k..].
MatchItems(items, k, s, P) ==
  IF k > Len(items) \/ P = {} THEN P
  ELSE LET it == items[k]
           Q  == CASE it.rep = "1" -> AtomStep(it, s, P)
                   [] it.rep = "?" -> P \cup AtomStep(it, s, P)
                   [] it.rep = "*" -> StarStep(it, s, P)
       IN  MatchItems(items, k + 1, s, Q)

\* regex.fullmatch(s): the pattern accepts the whole text.
fullmatch(re, s) == (Len(s) + 1) \in MatchItems(re, 1, s, {1})

AREA_TO_SHORTLOG_RES ==
  <<
    <<"Arches", <<
        Lit(<<"a","r","c","h">>) \o SubPath,
        Lit(<<"a","r","c">>) \o SubPath,
        Lit(<<"a","r","m">>) \o SubPath,
        Lit(<<"e","s","p","3","2">>) \o SubPath,
        Lit(<<"n","a","t","i","v","e">>) \o SubPath,
        Lit(<<"n","a","t","i","v","e","_","p","o","s","i","x">>),
        Lit(<<"n","i","o","s","2">>) \o SubPath,
        Lit(<<"p","o","s","i","x">>) \o SubPath,
        Lit(<<"l","p","c">>) \o SubPath,
        Lit(<<"r","i","s","c","v">>) \o <<Opt(Grp(Lit(<<"3","2">>)))>> \o SubPath,
        Lit(<<"s","o","c">>) \o SubPath,
        Lit(<<"x","8","6">>) \o SubPath,
        Lit(<<"x","t","e","n","s","a">>) \o SubPath >> >>,
    <<"Bluetooth", <<
        Lit(<<"b","l","u","e","t","o","o","t","h">>),
        Lit(<<"b","t">>) >> >>,
    <<"Boards", <<
        Lit(<<"b","o","a","r","d">>) \o <<Opt(Chr("s"))>> \o SubPath,
        Lit(<<"m","i","m","x","r","t","1","0","5","0","_","e","v","k">>) >> >>,
    <<"Build", <<
        Lit(<<"b","u","i","l","d">>),
        Lit(<<"c","l","a","n","g">>) \o SubPath,
        Lit(<<"c","m","a","k","e">>),
        Lit(<<"k","c","o","n","f","i","g">>),
        Lit(<<"g","e","n","_","i","s","r","_","t","a","b","l","e">>) \o <<Opt(Chr("s"))>>,
        Lit(<<"g","e","n","_","s","y","s","c","a","l","l","_","h","e","a","d","e","r">>),
        Lit(<<"g","e","n","r","e","s","t">>),
        Lit(<<"i","s","r","_","t","a","b","l","e">>) \o <<Opt(Chr("s"))>>,
        Lit(<<"l","d">>),
        Lit(<<"l","i","n","k","e","r">>),
        Lit(<<"m","e","n","u","c","o","n","f","i","g">>),
        Lit(<<"s","i","z","e","_","r","e","p","o","r","t">>),
        Lit(<<"t","o","o","l","c","h","a","i","n">>) \o <<Opt(Chr("s"))>> >> >>,
    <<"Continuous Integration", <<
        Lit(<<"c","i">>),
        Lit(<<"c","o","v","e","r","a","g","e">>),
        Lit(<<"s","a","n","i","t","y","c","h","e","c","k">>),
        Lit(<<"g","i","t","l","i","n","t">>) >> >>,
    <<"Cryptography", <<
        Lit(<<"c","r","y","p","t","o">>),
        Lit(<<"m","b","e","d","t","l","s">>) >> >>,
    <<"Device Tree", <<
        Lit(<<"d","t">>),
        Lit(<<"d","t","s">>) \o SubPath,
        Lit(<<"d","t","-","b","i","n","d","i","n","g","s">>),
        Lit(<<"e","x","t","r","a","c","t","_","d","t","s","_","i","n","c","l","u","d","e">>) \o <<Opt(Chr("s"))>> >> >>,
    <<"Documentation", <<
        Lit(<<"d","o","c">>) \o <<Opt(Chr("s"))>> \o SubPath,
        Lit(<<"C","O","N","T","R","I","B","U","T","I","N","G">>) \o <<AnyChar>> \o Lit(<<"r","s","t">>),
        Lit(<<"d","o","x","y","g","e","n">>) >> >>,
    <<"Drivers", <<
        Lit(<<"d","r","i","v","e","r">>) \o <<Opt(Chr("s"))>> \o SubPath,
        Lit(<<"a","d","c">>),
        Lit(<<"a","i","o">>),
        Lit(<<"c","a","n">>),
        Lit(<<"c","l","o","c","k","_","c","o","n","t","r","o","l">>),
        Lit(<<"c","o","u","n","t","e","r">>),
        Lit(<<"c","r","c">>),
        Lit(<<"d","e","v","i","c","e">>) \o <<Opt(Grp(Lit(<<".","h">>)))>>,
        Lit(<<"d","i","s","p","l","a","y">>),
        Lit(<<"d","m","a">>),
        Lit(<<"e","n","t","r","o","p","y">>),
        Lit(<<"e","t","h">>),
        Lit(<<"e","t","h","e","r","n","e","t">>),
        Lit(<<"f","l","a","s","h">>),
        Lit(<<"g","p","i","o">>),
        Lit(<<"g","r","o","v","e">>),
        Lit(<<"h","i","d">>),
        Lit(<<"i","2","c">>),
        Lit(<<"i","2","s">>),
        Lit(<<"i","n","t","e","r","r","u","p","t","_","c","o","n","t","r","o","l","l","e","r">>),
        Lit(<<"i","p","m">>),
        Lit(<<"l","e","d","_","s","t","r","i","p">>),
        Lit(<<"l","e","d">>),
        Lit(<<"n","e","t","u","s","b">>),
        Lit(<<"p","c","i">>),
        Lit(<<"p","i","n","m","u","x">>),
        Lit(<<"p","w","m">>),
        Lit(<<"r","t","c">>),
        Lit(<<"s","e","n","s","o","r">>) \o <<Opt(Chr("s"))>> \o SubPath,
        Lit(<<"s","e","r","i","a","l">>),
        Lit(<<"s","h","a","r","e","d","_","i","r","q">>),
        Lit(<<"s","p","i">>),
        Lit(<<"t","i","m","e","r">>),
        Lit(<<"u","a","r","t">>),
        Lit(<<"u","a","r","t","_","p","i","p","e">>),
        Lit(<<"u","s","b">>) \o SubPath,
        Lit(<<"w","a","t","c","h","d","o","g">>),
        Lit(<<"c","o","n","s","o","l","e">>),
        Lit(<<"r","a","n","d","o","m">>),
        Lit(<<"s","t","o","r","a","g","e">>) >> >>,
    <<"External", <<
        Lit(<<"e","x","t">>) \o SubPath,
        Lit(<<"h","a","l">>),
        Lit(<<"s","t","m","3","2","c","u","b","e">>) >> >>,
    <<"Firmware Update", <<
        Lit(<<"d","f","u">>),
        Lit(<<"m","g","m","t">>) >> >>,
    <<"Kernel", <<
        Lit(<<"k","e","r","n","e","l">>) \o SubPath,
        Lit(<<"p","o","l","l">>),
        Lit(<<"m","e","m","p","o","o","l">>),
        Lit(<<"s","y","s","c","a","l","l","s">>),
        Lit(<<"w","o","r","k","_","q">>),
        Lit(<<"i","n","i","t">>) \o <<AnyChar>> \o Lit(<<"h">>),
        Lit(<<"u","s","e","r","s","p","a","c","e">>),
        Lit(<<"k","_","q","u","e","u","e">>),
        Lit(<<"k","_","p","o","l","l">>),
        Lit(<<"a","p","p","_","m","e","m","o","r","y">>) >> >>,
    <<"Libraries", <<
        Lit(<<"l","i","b">>) \o <<Opt(Chr("c"))>>,
        Lit(<<"j","s","o","n">>),
        Lit(<<"r","i","n","g","_","b","u","f","f","e","r">>),
        Lit(<<"l","i","b">>) \o <<Grp(Lit(<<"/">>) \o <<Star(AnyChar)>>)>> >> >>,
    <<"Logging", <<
        Lit(<<"l","o","g","g","i","n","g">>),
        Lit(<<"l","o","g","g","e","r">>),
        Lit(<<"l","o","g">>) >> >>,
    <<"Maintainers", <<
        Lit(<<"C","O","D","E","O","W","N","E","R","S">>) \o <<Opt(Grp(Lit(<<".","r","s","t">>)))>> >> >>,
    <<"Miscellaneous", <<
        Lit(<<"m","i","s","c">>),
        Lit(<<"r","e","l","e","a","s","e">>),
        Lit(<<"s","h","e","l","l">>),
        Lit(<<"p","r","i","n","t","k">>),
        Lit(<<"v","e","r","s","i","o","n">>) >> >>,
    <<"Networking", <<
        Lit(<<"n","e","t">>) \o SubPath,
        Lit(<<"o","p","e","n","t","h","r","e","a","d">>),
        Lit(<<"s","l","i","p">>) >> >>,
    <<"Power Management", <<
        Lit(<<"p","o","w","e","r">>) >> >>,
    <<"Samples", <<
        Lit(<<"s","a","m","p","l","e">>) \o <<Opt(Chr("s"))>> \o SubPath >> >>,
    <<"Scripts", <<
        Lit(<<"s","c","r","i","p","t">>) \o <<Opt(Chr("s"))>> \o SubPath,
        Lit(<<"c","o","c","c","i","n","e","l","l","e">>),
        Lit(<<"r","u","n","n","e","r">>),
        Lit(<<"g","e","n","_","s","y","s","c","a","l","l","s">>) \o <<AnyChar>> \o Lit(<<"p","y">>),
        Lit(<<"g","e","n","_","s","y","s","c","a","l","l","_","h","e","a","d","e","r">>) \o <<AnyChar>> \o Lit(<<"p","y">>),
        Lit(<<"k","c","o","n","f","i","g","l","i","b">>),
        Lit(<<"w","e","s","t">>) >> >>,
    <<"Storage", <<
        Lit(<<"f","s">>) \o SubPath,
        Lit(<<"d","i","s","k">>) \o <<Opt(Chr("s"))>>,
        Lit(<<"f","c","b">>),
        Lit(<<"s","e","t","t","i","n","g","s">>) >> >>,
    <<"Testing", <<
        Lit(<<"t","e","s","t">>) \o <<Opt(Chr("s"))>> \o SubPath,
        Lit(<<"t","e","s","t","i","n","g">>),
        Lit(<<"u","n","i","t","t","e","s","t">>),
        Lit(<<"z","t","e","s","t">>),
        Lit(<<"t","r","a","c","i","n","g">>) >> >>
  >>

\* (pattern, area) pairs in catalog order.
RECURSIVE invert_keys_val_list(_)
invert_keys_val_list(kvs) ==
  IF kvs = <<>> THEN <<>>
  ELSE LET k  == kvs[1][1]
           vs == kvs[1][2]
       IN  [i \in 1..Len(vs) |-> <<vs[i], k>>] \o invert_keys_val_list(Tail(kvs))

\* SHORTLOG_RE_TO_AREA, were the pattern 'net(/.*)?' also filed under
\* Bluetooth.
SHORTLOG_RE_TO_AREA_overlapping ==
  invert_keys_val_list(AREA_TO_SHORTLOG_RES)
    \o << <<Lit(<<"n","e","t">>) \o SubPath, "Bluetooth">> >>

SHORTLOG_RE_TO_AREA == invert_keys_val_list(AREA_TO_SHORTLOG_RES)

AREAS == [i \in 1..Len(AREA_TO_SHORTLOG_RES) |-> AREA_TO_SHORTLOG_RES[i][1]]

AreaSet == {AREAS[i] : i \in 1..Len(AREAS)}

(***************************************************************************)
(* Shortlog helpers                                                        *)
(***************************************************************************)

RevertMarker == <<"R","e","v","e","r","t"," ">>

\* shortlog_is_revert, were a revert told by a quoted target only when that
\* target is not a revert itself.
shortlog_is_revert_once(shortlog) ==
  /\ StartsWith(shortlog, RevertMarker)
  /\ ~StartsWith(StripChars(DropFirst(shortlog, Len(RevertMarker)), {"\""}),
                 RevertMarker)

shortlog_is_revert(shortlog) == StartsWith(shortlog, RevertMarker)

shortlog_reverts_what(shortlog) ==
  StripChars(DropFirst(shortlog, Len(RevertMarker)), {"\""})

\* The namespaces whose real area prefix is one level deeper.
PassThrough == {<<"s","u","b","s","y","s">>, <<"i","n","c","l","u","d","e">>}

RECURSIVE shortlog_area_prefix(_)
shortlog_area_prefix(shortlog) ==
  IF shortlog = <<>> THEN NoPrefix
  ELSE IF shortlog_is_revert(shortlog)
       THEN shortlog_area_prefix(shortlog_reverts_what(shortlog))
  ELSE IF ~Contains(shortlog, ":") THEN NoPrefix
  ELSE LET at   == Find(shortlog, ":")
           area == StripChars(SubSeq(shortlog, 1, at - 1), Whitespace)
           rest == StripChars(DropFirst(shortlog, at), Whitespace)
       IN  IF area \in PassThrough THEN shortlog_area_prefix(rest) ELSE area

\* FirstMatch, were test_regex.match used: a pattern accepts a prefix when
\* it accepts a leading part of it.
FirstMatch_leading(area_pfx) ==
  LET hits == {i \in 1..Len(SHORTLOG_RE_TO_AREA) :
                 \E n \in 0..Len(area_pfx) :
                   fullmatch(SHORTLOG_RE_TO_AREA[i][1], SubSeq(area_pfx, 1, n))}
  IN  IF hits = {} THEN None
      ELSE SHORTLOG_RE_TO_AREA[CHOOSE i \in hits : \A j \in hits : i <= j][2]

\* The area of the first catalog pattern, in catalog order, that accepts the
\* whole prefix; None when no pattern does.
FirstMatch(area_pfx) ==
  LET hits == {i \in 1..Len(SHORTLOG_RE_TO_AREA) :
                 fullmatch(SHORTLOG_RE_TO_AREA[i][1], area_pfx)}
  IN  IF hits = {} THEN None
      ELSE SHORTLOG_RE_TO_AREA[CHOOSE i \in hits : \A j \in hits : i <= j][2]

\* shortlog_area, were a shortlog without a prefix matched whole.
shortlog_area_whole_text(shortlog) ==
  LET area_pfx == shortlog_area_prefix(shortlog)
  IN  FirstMatch(IF area_pfx = NoPrefix THEN shortlog ELSE area_pfx)

shortlog_area(shortlog) ==
  LET area_pfx == shortlog_area_prefix(shortlog)
  IN  IF area_pfx = NoPrefix THEN None ELSE FirstMatch(area_pfx)

(***************************************************************************)
(* Commits.  A commit is an opaque handle (pygit2.Commit); oid, message,   *)
(* author.email and parents are the attributes the analyzer reads.  The    *)
(* histories analysed are drawn from these commits:                        *)
(*   u1  net: ab      by a downstream contributor (@foundries.io)          *)
(*   u2  net: ab      by another author (@foundries.io.org)                *)
(*   u3  arm: ab      by a downstream contributor (@opensourcefoundries)   *)
(*   u4  nzz: ab      a prefix the catalog does not know                   *)
(*   u5  net ab       no area prefix at all                                *)
(*   d1, d2  net: ab  two distinct patches with the same shortlog          *)
(*   d3  Revert "net: ab"                                                  *)
(*   d4  Revert "net: ab"           a merge commit (two parents)           *)
(*   d5  net: ab                    a merge commit (two parents)           *)
(*   d6  [FIO toup] net: abc        a sauce-tagged patch                   *)
(*   d7  Revert "Revert "net: ab""  a revert of a revert                   *)
(***************************************************************************)

\* str(commit.oid)
oid ==
  "u1" :> <<"a","1","f","0">> @@
  "u2" :> <<"a","1","c","3">> @@
  "u3" :> <<"b","2","e","4">> @@
  "u4" :> <<"c","3","d","5">> @@
  "u5" :> <<"d","4","a","6">> @@
  "d1" :> <<"e","0","0","1">> @@
  "d2" :> <<"e","0","0","2">> @@
  "d3" :> <<"e","0","0","3">> @@
  "d4" :> <<"e","0","0","4">> @@
  "d5" :> <<"e","0","0","5">> @@
  "d6" :> <<"e","0","0","6">> @@
  "d7" :> <<"e","0","0","7">>

\* commit.message, as its lines
message ==
  "u1" :> <<<<"n","e","t",":"," ","a","b">>>> @@
  "u2" :> <<<<"n","e","t",":"," ","a","b">>>> @@
  "u3" :> <<<<"a","r","m",":"," ","a","b">>>> @@
  "u4" :> <<<<"n","z","z",":"," ","a","b">>>> @@
  "u5" :> <<<<"n","e","t"," ","a","b">>>> @@
  "d1" :> <<<<"n","e","t",":"," ","a","b">>>> @@
  "d2" :> <<<<"n","e","t",":"," ","a","b">>>> @@
  "d3" :> <<<<"R","e","v","e","r","t"," ","\"","n","e","t",":"," ","a","b","\"">>>> @@
  "d4" :> <<<<"R","e","v","e","r","t"," ","\"","n","e","t",":"," ","a","b","\"">>>> @@
  "d5" :> <<<<"n","e","t",":"," ","a","b">>>> @@
  "d6" :> <<<<"[","F","I","O"," ","t","o","u","p","]"," ","n","e","t",":"," ","a","b","c">>>> @@
  "d7" :> <<<<"R","e","v","e","r","t"," ","\"","R","e","v","e","r","t"," ","\"","n","e","t",":"," ","a","b","\"","\"">>>>

\* commit.author.email
author_email ==
  "u1" :> <<"m","@","f","o","u","n","d","r","i","e","s",".","i","o">> @@
  "u2" :> <<"m","@","f","o","u","n","d","r","i","e","s",".","i","o",".","o","r","g">> @@
  "u3" :> <<"k","@","o","p","e","n","s","o","u","r","c","e","f","o","u","n","d","r","i","e","s",".","c","o","m">> @@
  "u4" :> <<"m","@","f","o","u","n","d","r","i","e","s",".","i","o">> @@
  "u5" :> <<"k","@","o","p","e","n","s","o","u","r","c","e","f","o","u","n","d","r","i","e","s",".","c","o","m">> @@
  "d1" :> <<"m","@","f","o","u","n","d","r","i","e","s",".","i","o">> @@
  "d2" :> <<"m","@","f","o","u","n","d","r","i","e","s",".","i","o">> @@
  "d3" :> <<"m","@","f","o","u","n","d","r","i","e","s",".","i","o">> @@
  "d4" :> <<"m","@","f","o","u","n","d","r","i","e","s",".","i","o">> @@
  "d5" :> <<"m","@","f","o","u","n","d","r","i","e","s",".","i","o">> @@
  "d6" :> <<"m","@","f","o","u","n","d","r","i","e","s",".","i","o">> @@
  "d7" :> <<"m","@","f","o","u","n","d","r","i","e","s",".","i","o">>

\* len(commit.parents)
parents ==
  "u1" :> 1 @@
  "u2" :> 1 @@
  "u3" :> 1 @@
  "u4" :> 1 @@
  "u5" :> 1 @@
  "d1" :> 1 @@
  "d2" :> 1 @@
  "d3" :> 1 @@
  "d4" :> 2 @@
  "d5" :> 2 @@
  "d6" :> 1 @@
  "d7" :> 1

\* The commits the new-upstream walk can yield.
UpstreamPool == {"u1", "u2", "u3", "u4", "u5"}

\* The commits git rev-list can yield as downstream-only.
DownstreamPool == {"d1", "d2", "d3", "d4", "d5", "d6", "d7"}

\* Longest new-upstream list analysed.
MaxUpstream == 2

\* Longest downstream-only list analysed.
MaxDownstream == 3

\* Lists of distinct commits of a pool, up to a length.
ListsOf(pool, n) ==
  UNION {{s \in [1..k -> pool] : \A i, j \in 1..k : i # j => s[i] # s[j]} : k \in 0..n}

\* The place of each upstream commit in the topological walk of upstream
\* history.
walk_order ==
  "u1" :> 1 @@ "u2" :> 2 @@ "u3" :> 3 @@ "u4" :> 4 @@ "u5" :> 5

\* list(walker): the commits a walk of upstream history yields, in walk order,
\* up to a length.
WalksOf(n) ==
  {s \in ListsOf(UpstreamPool, n) :
     \A i, j \in 1..Len(s) : i < j => walk_order[s[i]] < walk_order[s[j]]}

\* commit.message.splitlines()[0]
commit_shortlog(commit) == message[commit][1]

\* Every commit of the two pools.
Commits == UpstreamPool \cup DownstreamPool

\* commit_area[commit], as a function of the commit.
commit_area == [commit \in Commits |-> shortlog_area(commit_shortlog(commit))]

(***************************************************************************)
(* Python dict / OrderedDict / defaultdict(list), as the sequence of its   *)
(* (key, value) pairs in insertion order.                                  *)
(***************************************************************************)

\* key in d
DictHas(d, key) == \E i \in 1..Len(d) : d[i][1] = key

\* d[key], for a key of d
DictGet(d, key) == d[CHOOSE i \in 1..Len(d) : d[i][1] = key][2]

\* d.get(key): None (given as dflt) when the key is absent
DictGetOr(d, key, dflt) == IF DictHas(d, key) THEN DictGet(d, key) ELSE dflt

\* DictDel, were the oldest entry deleted instead of the entry of the key.
DictDel_oldest(d, key) == Tail(d)

\* del d[key]
DictDel(d, key) ==
  LET at == CHOOSE i \in 1..Len(d) : d[i][1] = key
  IN  SubSeq(d, 1, at - 1) \o SubSeq(d, at + 1, Len(d))

\* d[key] = value: a new key goes last, a present key keeps its place
\* DictSet, were a new key put in front of the others.
DictSet_front(d, key, value) ==
  IF DictHas(d, key)
  THEN [i \in 1..Len(d) |-> IF d[i][1] = key THEN <<key, value>> ELSE d[i]]
  ELSE <<<<key, value>>>> \o d

DictSet(d, key, value) ==
  IF DictHas(d, key)
  THEN [i \in 1..Len(d) |-> IF d[i][1] = key THEN <<key, value>> ELSE d[i]]
  ELSE Append(d, <<key, value>>)

\* DictAppend, were the list of the key replaced by the one new value.
DictAppend_replace(d, key, value) == DictSet(d, key, <<value>>)

\* d[key].append(value) on a defaultdict(list)
DictAppend(d, key, value) ==
  DictSet(d, key, Append(DictGetOr(d, key, <<>>), value))

\* Python truthiness of an area value, and the 'or' of two of them.
Truthy(a) == a # None /\ a # ""

PyOr(a, b) == IF Truthy(a) THEN a ELSE b

(***************************************************************************)
(* Edit distance (editdistance.eval is the Levenshtein distance)           *)
(***************************************************************************)

Min2(a, b) == IF a <= b THEN a ELSE b

\* One row of the dynamic-programming table; acc holds the columns done,
\* column j at index j + 1.
RECURSIVE BuildRow(_, _, _, _)
BuildRow(prev, c, b, acc) ==
  LET j == Len(acc)
  IN  IF j > Len(b) THEN acc
      ELSE LET cost == IF b[j] = c THEN 0 ELSE 1
               v    == Min2(Min2(prev[j + 1] + 1, acc[j] + 1), prev[j] + cost)
           IN  BuildRow(prev, c, b, Append(acc, v))

\* The last cell of the table, row by row.  A row always has Len(b) + 1
\* cells; asking for its length makes it a value before the next row is
\* built from it.
RECURSIVE LevRows(_, _, _, _)
LevRows(a, b, i, prev) ==
  IF i > Len(a) THEN prev[Len(b) + 1]
  ELSE LET row == BuildRow(prev, a[i], b, <<i>>)
       IN  IF Len(row) = Len(b) + 1 THEN LevRows(a, b, i + 1, row) ELSE -1

editdistance_eval(a, b) == LevRows(a, b, 1, [j \in 1..(Len(b) + 1) |-> j - 1])

\* The sauce tags analyze passes to shortlog_no_sauce.
SauceTags == {<<"[","O","S","F">>, <<"[","F","I","O">>}

\* A shortlog without its leading bracketed sauce tag.
shortlog_no_sauce(shortlog, sauce_tags) ==
  IF \E t \in sauce_tags : StartsWith(shortlog, t)
  THEN StripChars(DropFirst(shortlog, Find(shortlog, "]")), Whitespace)
  ELSE shortlog

\* The author-domain suffixes of downstream contributors.
DownstreamDomains ==
  {<<"@","o","p","e","n","s","o","u","r","c","e","f","o","u","n","d","r","i","e","s",".","c","o","m">>,
   <<"@","f","o","u","n","d","r","i","e","s",".","i","o">>}

(***************************************************************************)
(* ZephyrRepoAnalyzer                                                      *)
(***************************************************************************)

\* The sha_to_area map of --set-area.  Two of its keys start the id of u1;
\* none starts the id of u2.
ShaToArea ==
  << <<(<<"d","4">>), "Miscellaneous">>,
     <<(<<"a","1","f">>), "Kernel">>,
     <<(<<"a","1","f","0">>), "Build">> >>

\* The prefix_area_map of --set-area-prefix.
PrefixAreaMap ==
  << <<(<<"n","z","z">>), "Miscellaneous">>,
     <<(<<"n","e","t">>), "Testing">> >>

\* The overrides an analyzer is constructed with: none (sha_to_area empty,
\* area_by_shortlog None), or both maps (area_by_shortlog is
\* prefix_area_map.get).
OverrideChoices ==
  {[sha_to_area |-> <<>>,
    area_by_shortlog |-> [given |-> FALSE, prefix_area_map |-> <<>>]],
   [sha_to_area |-> ShaToArea,
    area_by_shortlog |-> [given |-> TRUE, prefix_area_map |-> PrefixAreaMap]]}

\* The edit_dist_threshold values an analyzer is constructed with; 3 is the
\* default.
ThresholdChoices == {2, 3}

VARIABLES
  sha_to_area,              \* self.sha_to_area
  area_by_shortlog,         \* self.area_by_shortlog
  edit_dist_threshold,      \* self.edit_dist_threshold
  pc,                       \* where analyze() is
  upstream_new,             \* list of new-upstream commits
  upstream_commit_range,    \* <<first, last>> once computed
  upstream_area_patches,    \* defaultdict(list): area -> commits
  upstream_area_counts,     \* dict: area -> number of commits
  ci,                       \* position of the classification loop
  downstream_only,          \* list of downstream-only commits
  di,                       \* position of the fold
  downstream_outstanding,   \* OrderedDict: shortlog -> commit
  stderr,                   \* the revert targets warned about, in order
  upstream_downstream,      \* new-upstream commits by downstream authors
  likely_merged,            \* OrderedDict: shortlog -> candidate commits
  mi,                       \* position of the matching loop
  raised,                   \* <<>> or <<exception>>
  result,                   \* <<>> or <<ZephyrRepoAnalysis>>
  repo_path,                \* self.repo_path
  downstream_ref,           \* self.downstream_ref
  upstream_ref,             \* self.upstream_ref
  repo,                     \* self.repo: <<>> or <<the repository opened>>
  merge_base,               \* <<>> or <<the commit repo.merge_base returned>>
  trial_shortlog,           \* the shortlog being classified
  trial_area,               \* <<>> or <<what shortlog_area returned for it>>
  derived_from,             \* how the shortlog was made from earlier ones:
                            \* one record per rewrite, the latest last
  args,                     \* <<>> or <<the command-line arguments>>
  mergeup_i,                \* position of 'for m, hls in highlights.items()'
  hls,                      \* the highlight paragraphs of the mergeup at hand
  hl_i,                     \* position of 'for hl in hls'
  state,                    \* 'seeking_heading' or 'seeking_summary'
  have_headings,            \* whether the section at hand has headings
  out,                      \* what was printed to 'out', entry by entry
  missing                   \* the mergeups without highlights

vars == <<sha_to_area, area_by_shortlog, edit_dist_threshold, pc, upstream_new,
          upstream_commit_range, upstream_area_patches, upstream_area_counts,
          ci, downstream_only, di, downstream_outstanding, stderr,
          upstream_downstream, likely_merged, mi, raised, result, repo_path,
          downstream_ref, upstream_ref, repo, merge_base, trial_shortlog,
          trial_area, derived_from, args, mergeup_i, hls, hl_i, state,
          have_headings, out, missing>>

\* The repository and the refs into it.
repo_vars == <<repo_path, downstream_ref, upstream_ref, repo, merge_base>>

\* The classifier applied to one shortlog at a time.
trial_vars == <<trial_shortlog, trial_area, derived_from>>

config == <<sha_to_area, area_by_shortlog, edit_dist_threshold>>

\* The release-notes writer of prep-release-notes.py.
notes_vars == <<mergeup_i, hls, hl_i, state, have_headings, out, missing>>

upstream_vars == <<upstream_new, upstream_commit_range, upstream_area_patches,
                   upstream_area_counts, ci>>

fold_vars == <<downstream_only, di, downstream_outstanding, stderr>>

match_vars == <<upstream_downstream, likely_merged, mi>>

\* The analysis of commit lists reads the history through upstream_new and
\* downstream_only alone: no repository is open.
NoRepository ==
  /\ repo_path = "zephyr"
  /\ downstream_ref = 0
  /\ upstream_ref = 0
  /\ repo = <<>>
  /\ merge_base = <<>>

\* No shortlog is under trial.
NoTrial ==
  /\ trial_shortlog = <<>>
  /\ trial_area = <<>>
  /\ derived_from = <<>>

\* No release notes are being written.
NoNotes ==
  /\ mergeup_i = 1
  /\ hls = <<>>
  /\ hl_i = 1
  /\ state = "seeking_heading"
  /\ have_headings = FALSE
  /\ out = <<>>
  /\ missing = <<>>

\* ZephyrRepoAnalyzer.__init__
Init ==
  /\ \E o \in OverrideChoices :
       /\ sha_to_area = o.sha_to_area
       /\ area_by_shortlog = o.area_by_shortlog
  /\ edit_dist_threshold \in ThresholdChoices
  /\ pc = "start"
  /\ upstream_new = <<>>
  /\ upstream_commit_range = <<>>
  /\ upstream_area_patches = <<>>
  /\ upstream_area_counts = <<>>
  /\ ci = 1
  /\ downstream_only = <<>>
  /\ di = 1
  /\ downstream_outstanding = <<>>
  /\ stderr = <<>>
  /\ upstream_downstream = <<>>
  /\ likely_merged = <<>>
  /\ mi = 1
  /\ raised = <<>>
  /\ result = <<>>
  /\ NoRepository
  /\ NoTrial
  /\ args = <<>>
  /\ NoNotes

\* The area a manual override gives the commit, None when there is none.
check_known_area(commit) ==
  LET sha  == oid[commit]
      hits == {i \in 1..Len(sha_to_area) : StartsWith(sha, sha_to_area[i][1])}
  IN  IF hits # {}
      THEN sha_to_area[CHOOSE i \in hits : \A j \in hits : i <= j][2]
      ELSE IF area_by_shortlog.given
      THEN DictGetOr(area_by_shortlog.prefix_area_map,
                     shortlog_area_prefix(commit_shortlog(commit)), None)
      ELSE None

\* AreaOf, were the catalog asked first and the overrides second.
AreaOf_catalog_first(commit) ==
  PyOr(commit_area[commit], check_known_area(commit))

\* The area analyze files a new-upstream commit under.
AreaOf(commit) == PyOr(check_known_area(commit), commit_area[commit])

\* upstream_new = self._new_upstream_only_commits(), and the covered range.
\* upstream_new[0] fails on an empty list.
\* NewUpstream, were an empty list of new upstream commits let through with
\* an empty range.
NewUpstream_empty_range ==
  /\ pc = "start"
  /\ \E new \in WalksOf(MaxUpstream) :
       /\ upstream_new' = new
       /\ upstream_commit_range' =
            IF new = <<>> THEN <<>> ELSE <<new[1], new[Len(new)]>>
       /\ pc' = "classify"
       /\ UNCHANGED raised
  /\ UNCHANGED <<config, repo_vars, trial_vars, args, notes_vars, upstream_area_patches, upstream_area_counts, ci,
                 fold_vars, match_vars, result>>

NewUpstream ==
  /\ pc = "start"
  /\ \E new \in WalksOf(MaxUpstream) :
       /\ upstream_new' = new
       /\ IF new = <<>>
          THEN /\ raised' = <<[type |-> "IndexError", args |-> <<>>]>>
               /\ pc' = "raised"
               /\ UNCHANGED upstream_commit_range
          ELSE /\ upstream_commit_range' = <<new[1], new[Len(new)]>>
               /\ pc' = "classify"
               /\ UNCHANGED raised
  /\ UNCHANGED <<config, repo_vars, trial_vars, args, notes_vars, upstream_area_patches, upstream_area_counts, ci,
                 fold_vars, match_vars, result>>

\* Classify, were the first commit without an area to raise at once.
Classify_failfast ==
  /\ pc = "classify"
  /\ ci <= Len(upstream_new)
  /\ LET c == upstream_new[ci]
     IN  IF AreaOf(c) = None
         THEN /\ raised' = <<[type |-> "UnknownCommitsError", args |-> <<c>>]>>
              /\ pc' = "raised"
              /\ UNCHANGED <<upstream_area_patches, ci>>
         ELSE /\ upstream_area_patches' =
                   DictAppend(upstream_area_patches, AreaOf(c), c)
              /\ ci' = ci + 1
              /\ UNCHANGED <<pc, raised>>
  /\ UNCHANGED <<config, repo_vars, trial_vars, args, notes_vars, upstream_new, upstream_commit_range,
                 upstream_area_counts, fold_vars, match_vars, result>>

\* One turn of 'for c in upstream_new'.
Classify ==
  /\ pc = "classify"
  /\ ci <= Len(upstream_new)
  /\ LET c == upstream_new[ci]
     IN  upstream_area_patches' = DictAppend(upstream_area_patches, AreaOf(c), c)
  /\ ci' = ci + 1
  /\ UNCHANGED <<config, repo_vars, trial_vars, args, notes_vars, pc, upstream_new, upstream_commit_range,
                 upstream_area_counts, fold_vars, match_vars, raised, result>>

\* unknown_area, were the list looked up under a key that is never used.
unknown_area_wrong_key == DictGetOr(upstream_area_patches, "Unknown", <<>>)

\* upstream_area_patches.get(None); an absent list is falsy like an empty one.
unknown_area == DictGetOr(upstream_area_patches, None, <<>>)

\* After the loop: commits filed under None make analyze raise.
RaiseUnknown ==
  /\ pc = "classify"
  /\ ci > Len(upstream_new)
  /\ unknown_area # <<>>
  /\ raised' = <<[type |-> "UnknownCommitsError", args |-> unknown_area]>>
  /\ pc' = "raised"
  /\ UNCHANGED <<config, repo_vars, trial_vars, args, notes_vars, upstream_vars, fold_vars, match_vars, result>>

\* After the loop, nothing unknown: count the areas and list the
\* downstream-only commits.
\* CountAreas, were the fold entered without the unknown-area check.
CountAreas_unchecked ==
  /\ pc = "classify"
  /\ ci > Len(upstream_new)
  /\ upstream_area_counts' =
       [i \in 1..Len(upstream_area_patches) |->
          <<upstream_area_patches[i][1], Len(upstream_area_patches[i][2])>>]
  /\ downstream_only' \in ListsOf(DownstreamPool, MaxDownstream)
  /\ pc' = "fold"
  /\ UNCHANGED <<config, repo_vars, trial_vars, args, notes_vars, upstream_new, upstream_commit_range,
                 upstream_area_patches, ci, di, downstream_outstanding, stderr,
                 match_vars, raised, result>>

CountAreas ==
  /\ pc = "classify"
  /\ ci > Len(upstream_new)
  /\ unknown_area = <<>>
  /\ upstream_area_counts' =
       [i \in 1..Len(upstream_area_patches) |->
          <<upstream_area_patches[i][1], Len(upstream_area_patches[i][2])>>]
  /\ downstream_only' \in ListsOf(DownstreamPool, MaxDownstream)
  /\ pc' = "fold"
  /\ UNCHANGED <<config, repo_vars, trial_vars, args, notes_vars, upstream_new, upstream_commit_range,
                 upstream_area_patches, ci, di, downstream_outstanding, stderr,
                 match_vars, raised, result>>

\* is_merge, were only octopus merges (three parents or more) skipped.
is_merge_octopus(c) == parents[c] > 2

\* len(c.parents) > 1: a mergeup commit.
is_merge(c) == parents[c] > 1

\* The fold is at a commit c of downstream_only.
FoldAt(c) ==
  /\ pc = "fold"
  /\ di <= Len(downstream_only)
  /\ c = downstream_only[di]

\* A merge commit is skipped.
FoldMerge ==
  /\ \E c \in DownstreamPool :
       /\ FoldAt(c)
       /\ is_merge(c)
  /\ di' = di + 1
  /\ UNCHANGED <<config, repo_vars, trial_vars, args, notes_vars, pc, upstream_vars, downstream_only,
                 downstream_outstanding, stderr, match_vars, raised, result>>

\* FoldRevertMissing, were a revert of an absent shortlog fatal.
FoldRevertMissing_fatal ==
  /\ \E c \in DownstreamPool :
       /\ FoldAt(c)
       /\ ~is_merge(c)
       /\ shortlog_is_revert(commit_shortlog(c))
       /\ LET what == shortlog_reverts_what(commit_shortlog(c))
          IN  /\ ~DictHas(downstream_outstanding, what)
              /\ raised' = <<[type |-> "RuntimeError", args |-> <<what>>]>>
  /\ pc' = "raised"
  /\ UNCHANGED <<config, repo_vars, trial_vars, args, notes_vars, upstream_vars, fold_vars, match_vars, result>>

\* A revert of a shortlog that is not outstanding: warn and go on.
FoldRevertMissing ==
  /\ \E c \in DownstreamPool :
       /\ FoldAt(c)
       /\ ~is_merge(c)
       /\ shortlog_is_revert(commit_shortlog(c))
       /\ LET what == shortlog_reverts_what(commit_shortlog(c))
          IN  /\ ~DictHas(downstream_outstanding, what)
              /\ stderr' = Append(stderr, what)
  /\ di' = di + 1
  /\ UNCHANGED <<config, repo_vars, trial_vars, args, notes_vars, pc, upstream_vars, downstream_only,
                 downstream_outstanding, match_vars, raised, result>>

\* FoldRevert, were the reverted patch left in the map.
FoldRevert_keep ==
  /\ \E c \in DownstreamPool :
       /\ FoldAt(c)
       /\ ~is_merge(c)
       /\ shortlog_is_revert(commit_shortlog(c))
       /\ DictHas(downstream_outstanding, shortlog_reverts_what(commit_shortlog(c)))
  /\ di' = di + 1
  /\ UNCHANGED <<config, repo_vars, trial_vars, args, notes_vars, pc, upstream_vars, downstream_only,
                 downstream_outstanding, stderr, match_vars, raised, result>>

\* A revert of an outstanding shortlog deletes it.
FoldRevert ==
  /\ \E c \in DownstreamPool :
       /\ FoldAt(c)
       /\ ~is_merge(c)
       /\ shortlog_is_revert(commit_shortlog(c))
       /\ LET what == shortlog_reverts_what(commit_shortlog(c))
          IN  /\ DictHas(downstream_outstanding, what)
              /\ downstream_outstanding' = DictDel(downstream_outstanding, what)
  /\ di' = di + 1
  /\ UNCHANGED <<config, repo_vars, trial_vars, args, notes_vars, pc, upstream_vars, downstream_only, stderr,
                 match_vars, raised, result>>

\* FoldDuplicate, were the later commit to replace the earlier one silently.
FoldDuplicate_overwrite ==
  /\ \E c \in DownstreamPool :
       /\ FoldAt(c)
       /\ ~is_merge(c)
       /\ ~shortlog_is_revert(commit_shortlog(c))
       /\ DictHas(downstream_outstanding, commit_shortlog(c))
       /\ downstream_outstanding' =
            DictSet(downstream_outstanding, commit_shortlog(c), c)
  /\ di' = di + 1
  /\ UNCHANGED <<config, repo_vars, trial_vars, args, notes_vars, pc, upstream_vars, downstream_only, stderr,
                 match_vars, raised, result>>

\* An ordinary commit whose shortlog is outstanding already: analyze raises.
FoldDuplicate ==
  /\ \E c \in DownstreamPool :
       /\ FoldAt(c)
       /\ ~is_merge(c)
       /\ ~shortlog_is_revert(commit_shortlog(c))
       /\ DictHas(downstream_outstanding, commit_shortlog(c))
       /\ raised' = <<[type |-> "NotImplementedError",
                       args |-> <<commit_shortlog(c)>>]>>
  /\ pc' = "raised"
  /\ UNCHANGED <<config, repo_vars, trial_vars, args, notes_vars, upstream_vars, fold_vars, match_vars, result>>

\* An ordinary commit becomes outstanding.
FoldInsert ==
  /\ \E c \in DownstreamPool :
       /\ FoldAt(c)
       /\ ~is_merge(c)
       /\ ~shortlog_is_revert(commit_shortlog(c))
       /\ ~DictHas(downstream_outstanding, commit_shortlog(c))
       /\ downstream_outstanding' =
            DictSet(downstream_outstanding, commit_shortlog(c), c)
  /\ di' = di + 1
  /\ UNCHANGED <<config, repo_vars, trial_vars, args, notes_vars, pc, upstream_vars, downstream_only, stderr,
                 match_vars, raised, result>>

\* is_downstream_author, were the domain looked for anywhere in the address.
is_downstream_author_anywhere(c) ==
  \E sfx \in DownstreamDomains :
    \E k \in 0..Len(author_email[c]) :
      StartsWith(DropFirst(author_email[c], k), sfx)

\* c.author.email.endswith((...))
is_downstream_author(c) ==
  \E sfx \in DownstreamDomains : EndsWith(author_email[c], sfx)

\* FilterAuthors, were the downstream-authored commits kept newest first.
FilterAuthors_newest_first ==
  /\ pc = "fold"
  /\ di > Len(downstream_only)
  /\ LET kept == SelectSeq(upstream_new, is_downstream_author)
     IN  upstream_downstream' =
           [i \in 1..Len(kept) |-> kept[Len(kept) + 1 - i]]
  /\ pc' = "match"
  /\ UNCHANGED <<config, repo_vars, trial_vars, args, notes_vars, upstream_vars, fold_vars, likely_merged, mi, raised,
                 result>>

\* After the fold: the new-upstream commits by downstream contributors.
FilterAuthors ==
  /\ pc = "fold"
  /\ di > Len(downstream_only)
  /\ upstream_downstream' = SelectSeq(upstream_new, is_downstream_author)
  /\ pc' = "match"
  /\ UNCHANGED <<config, repo_vars, trial_vars, args, notes_vars, upstream_vars, fold_vars, likely_merged, mi, raised,
                 result>>

\* ed(upstream_commit) for the outstanding shortlog downstream_sl.
ed(downstream_sl, upstream_commit) ==
  editdistance_eval(shortlog_no_sauce(downstream_sl, SauceTags),
                    commit_shortlog(upstream_commit))

\* Matches, were a distance equal to the threshold accepted.
Matches_inclusive(downstream_sl) ==
  SelectSeq(upstream_downstream,
            LAMBDA c : ed(downstream_sl, c) <= edit_dist_threshold)

\* The candidates of one outstanding shortlog.
Matches(downstream_sl) ==
  SelectSeq(upstream_downstream,
            LAMBDA c : ed(downstream_sl, c) < edit_dist_threshold)

\* Match, were an empty candidate list stored like any other.
Match_keep_empty ==
  /\ pc = "match"
  /\ mi <= Len(downstream_outstanding)
  /\ LET downstream_sl == downstream_outstanding[mi][1]
     IN  likely_merged' =
           DictSet(likely_merged, downstream_sl, Matches(downstream_sl))
  /\ mi' = mi + 1
  /\ UNCHANGED <<config, repo_vars, trial_vars, args, notes_vars, pc, upstream_vars, fold_vars, upstream_downstream,
                 raised, result>>

\* One turn of 'for downstream_sl, downstream_c in downstream_outstanding'.
Match ==
  /\ pc = "match"
  /\ mi <= Len(downstream_outstanding)
  /\ LET downstream_sl == downstream_outstanding[mi][1]
         matches       == Matches(downstream_sl)
     IN  likely_merged' =
           IF Len(matches) # 0
           THEN DictSet(likely_merged, downstream_sl, matches)
           ELSE likely_merged
  /\ mi' = mi + 1
  /\ UNCHANGED <<config, repo_vars, trial_vars, args, notes_vars, pc, upstream_vars, fold_vars, upstream_downstream,
                 raised, result>>

\* return ZephyrRepoAnalysis(...)
Return ==
  /\ pc = "match"
  /\ mi > Len(downstream_outstanding)
  /\ result' = <<[upstream_area_counts |-> upstream_area_counts,
                  upstream_area_patches |-> upstream_area_patches,
                  upstream_commit_range |-> upstream_commit_range,
                  downstream_outstanding_patches |-> downstream_outstanding,
                  downstream_merged_patches |-> likely_merged]>>
  /\ pc' = "returned"
  /\ UNCHANGED <<config, repo_vars, trial_vars, args, notes_vars, upstream_vars, fold_vars, match_vars, raised>>

Next ==
  \/ NewUpstream
  \/ Classify
  \/ RaiseUnknown
  \/ CountAreas
  \/ FoldMerge
  \/ FoldRevertMissing
  \/ FoldRevert
  \/ FoldDuplicate
  \/ FoldInsert
  \/ FilterAuthors
  \/ Match
  \/ Return

Spec == Init /\ [][Next]_vars

(***************************************************************************)
(* The revision ranges.  A repository is a commit graph: a sequence g      *)
(* where g[c] is the set of parents of commit c.  Commits are numbered in  *)
(* commit-time order, 1 the root commit, so parents are older than their   *)
(* children.  A ref is a commit-ish: the number of the commit it names.    *)
(* The commits here carry no message: what analyze() does with the two     *)
(* lists is the subject of Spec.                                           *)
(***************************************************************************)

\* Most commits in a repository.
MaxCommits == 5

\* The parents a commit made after n others can have: one commit, or the two
\* of a merge.
ParentChoices(n) ==
  {ps \in SUBSET (1..n) : Cardinality(ps) \in {1, 2}}

\* The commit graphs of exactly n commits.
RECURSIVE GraphsOf(_)
GraphsOf(n) ==
  IF n = 1 THEN {<< {} >>}
  ELSE {Append(g, ps) : g \in GraphsOf(n - 1), ps \in ParentChoices(n - 1)}

\* The repositories that can be at the valid path.
Repositories == UNION {GraphsOf(n) : n \in 1..MaxCommits}

\* The paths an analyzer is constructed with; only the first is a
\* repository.
RepoPaths == {"zephyr", "elsewhere"}

\* The refs an analyzer is constructed with; 0 names no commit of any
\* repository.
RefNames == 0..MaxCommits

\* repo.revparse_single(ref): <<the commit>>, or <<>> where pygit2 raises
\* KeyError because the repository has no such commit.
revparse_single(g, ref) ==
  IF ref \in 1..Len(g) THEN <<ref>> ELSE <<>>

\* The commits reachable from a commit, itself included.
RECURSIVE Reachable(_, _)
Reachable(g, c) ==
  {c} \cup UNION {Reachable(g, p) : p \in g[c]}

\* The best common ancestors of two commits: the common ancestors that no
\* other common ancestor descends from.  repo.merge_base returns one.
MergeBases(g, a, b) ==
  LET common == Reachable(g, a) \cap Reachable(g, b)
  IN  {c \in common : \A x \in common \ {c} : c \notin Reachable(g, x)}

\* The orders a GIT_SORT_TOPOLOGICAL | GIT_SORT_REVERSE walk can yield a set
\* of commits in: every commit after its parents.
RECURSIVE TopologicalOrders(_, _)
TopologicalOrders(g, S) ==
  IF S = {} THEN {<<>>}
  ELSE UNION {{Append(o, c) : o \in TopologicalOrders(g, S \ {c})} :
                c \in {x \in S : \A y \in S : x \notin g[y]}}

\* A set of commits, oldest first.
RECURSIVE OldestFirst(_)
OldestFirst(S) ==
  IF S = {} THEN <<>>
  ELSE LET newest == CHOOSE c \in S : \A x \in S : x <= c
       IN  Append(OldestFirst(S \ {newest}), newest)

\* An analyzer is constructed; nothing is opened yet.
RepoInit ==
  /\ repo_path \in RepoPaths
  /\ downstream_ref \in RefNames
  /\ upstream_ref \in RefNames
  /\ repo = <<>>
  /\ merge_base = <<>>
  /\ pc = "start"
  /\ upstream_new = <<>>
  /\ downstream_only = <<>>
  /\ raised = <<>>
  /\ result = <<>>
  /\ sha_to_area = <<>>
  /\ area_by_shortlog = [given |-> FALSE, prefix_area_map |-> <<>>]
  /\ edit_dist_threshold = 3
  /\ upstream_commit_range = <<>>
  /\ upstream_area_patches = <<>>
  /\ upstream_area_counts = <<>>
  /\ ci = 1
  /\ di = 1
  /\ downstream_outstanding = <<>>
  /\ stderr = <<>>
  /\ upstream_downstream = <<>>
  /\ likely_merged = <<>>
  /\ mi = 1
  /\ NoTrial
  /\ args = <<>>
  /\ NoNotes

\* What the revision ranges leave alone.
analysis_rest ==
  <<config, upstream_area_patches, upstream_area_counts, ci, di,
    downstream_outstanding, stderr, match_vars, result, trial_vars, args, notes_vars>>

\* pygit2.Repository(self.repo_path) raises KeyError: analyze() raises
\* InvalidRepositoryError with the path in its message.
OpenFails ==
  /\ pc = "start"
  /\ repo_path # "zephyr"
  /\ raised' = <<[type |-> "InvalidRepositoryError", args |-> <<repo_path>>]>>
  /\ pc' = "raised"
  /\ UNCHANGED <<analysis_rest, repo_path, downstream_ref, upstream_ref, repo,
                 merge_base, upstream_new, upstream_commit_range,
                 downstream_only>>

\* self.repo = pygit2.Repository(self.repo_path)
Open ==
  /\ pc = "start"
  /\ repo_path = "zephyr"
  /\ \E r \in Repositories : repo' = <<r>>
  /\ pc' = "opened"
  /\ UNCHANGED <<analysis_rest, repo_path, downstream_ref, upstream_ref,
                 merge_base, upstream_new, upstream_commit_range,
                 downstream_only, raised>>

\* The refs in the order _new_upstream_only_commits resolves them.
RefsResolved ==
  <<revparse_single(repo[1], downstream_ref),
    revparse_single(repo[1], upstream_ref)>>

\* repo.revparse_single raises KeyError for the first ref that names no
\* commit; nothing in analyze() catches it.
ResolveFails ==
  /\ pc = "opened"
  /\ \E i \in 1..2 : RefsResolved[i] = <<>>
  /\ raised' =
       <<[type |-> "KeyError",
          args |-> <<IF RefsResolved[1] = <<>> THEN downstream_ref
                     ELSE upstream_ref>>]>>
  /\ pc' = "raised"
  /\ UNCHANGED <<analysis_rest, repo_vars, upstream_new,
                 upstream_commit_range, downstream_only>>

\* _new_upstream_only_commits, were GIT_SORT_REVERSE left out of the walk.
NewUpstreamOnlyCommits_newest_first ==
  /\ pc = "opened"
  /\ \A i \in 1..2 : RefsResolved[i] # <<>>
  /\ LET g              == repo[1]
         downstream_oid == RefsResolved[1][1]
         upstream_oid   == RefsResolved[2][1]
     IN  \E mb \in MergeBases(g, downstream_oid, upstream_oid) :
           \E walk \in TopologicalOrders(g, Reachable(g, upstream_oid)
                                               \ Reachable(g, mb)) :
             /\ merge_base' = <<mb>>
             /\ upstream_new' =
                  [i \in 1..Len(walk) |-> walk[Len(walk) + 1 - i]]
  /\ pc' = "walked"
  /\ UNCHANGED <<analysis_rest, repo_path, downstream_ref, upstream_ref, repo,
                 upstream_commit_range, downstream_only, raised>>

\* upstream_new = self._new_upstream_only_commits(): the walk from
\* upstream_oid with merge_base and its ancestors hidden.
NewUpstreamOnlyCommits ==
  /\ pc = "opened"
  /\ \A i \in 1..2 : RefsResolved[i] # <<>>
  /\ LET g              == repo[1]
         downstream_oid == RefsResolved[1][1]
         upstream_oid   == RefsResolved[2][1]
     IN  \E mb \in MergeBases(g, downstream_oid, upstream_oid) :
           \E walk \in TopologicalOrders(g, Reachable(g, upstream_oid)
                                               \ Reachable(g, mb)) :
             /\ merge_base' = <<mb>>
             /\ upstream_new' = walk
  /\ pc' = "walked"
  /\ UNCHANGED <<analysis_rest, repo_path, downstream_ref, upstream_ref, repo,
                 upstream_commit_range, downstream_only, raised>>

\* upstream_commit_range = (upstream_new[0], upstream_new[-1])
CommitRange ==
  /\ pc = "walked"
  /\ IF upstream_new = <<>>
     THEN /\ raised' = <<[type |-> "IndexError", args |-> <<>>]>>
          /\ pc' = "raised"
          /\ UNCHANGED upstream_commit_range
     ELSE /\ upstream_commit_range' =
               <<upstream_new[1], upstream_new[Len(upstream_new)]>>
          /\ pc' = "ranged"
          /\ UNCHANGED raised
  /\ UNCHANGED <<analysis_rest, repo_vars, upstream_new, downstream_only>>

\* _all_downstream_only_commits, were the list to start after the merge
\* base.
AllDownstreamOnlyCommits_since_merge_base ==
  /\ pc = "ranged"
  /\ LET g == repo[1]
     IN  downstream_only' =
           OldestFirst({c \in Reachable(g, RefsResolved[1][1])
                                \ Reachable(g, RefsResolved[2][1]) :
                          c > merge_base[1]})
  /\ pc' = "listed"
  /\ UNCHANGED <<analysis_rest, repo_vars, upstream_new,
                 upstream_commit_range, raised>>

\* downstream_only = self._all_downstream_only_commits(): the output of
\* git rev-list --reverse downstream_ref ^upstream_ref.
AllDownstreamOnlyCommits ==
  /\ pc = "ranged"
  /\ LET g == repo[1]
     IN  downstream_only' =
           OldestFirst(Reachable(g, RefsResolved[1][1])
                         \ Reachable(g, RefsResolved[2][1]))
  /\ pc' = "listed"
  /\ UNCHANGED <<analysis_rest, repo_vars, upstream_new,
                 upstream_commit_range, raised>>

RepoNext ==
  \/ OpenFails
  \/ Open
  \/ ResolveFails
  \/ NewUpstreamOnlyCommits
  \/ CommitRange
  \/ AllDownstreamOnlyCommits

RepoSpec == RepoInit /\ [][RepoNext]_vars

(***************************************************************************)
(* The classifier on its own.  shortlog_area is applied to a shortlog,     *)
(* then to the shortlogs made from it the way _self_test makes its cases:  *)
(* the revert of it, a pass-through namespace in front of it, a prefix     *)
(* segment of it in upper case.                                            *)
(***************************************************************************)

\* Most rewrites of one shortlog.
MaxRewrites == 2

\* The shortlogs the trials start from.
BaseShortlogs ==
  {<<"n","e","t",":"," ","a","b">>,
   <<"a","r","m",":"," ","a","b">>,
   <<"n","z","z",":"," ","a","b">>,
   <<"n","e","t"," ","a","b">>,
   <<>>,
   <<"m","i","m","x","r","t","1","0","5","0","_","e","v","k">>,
   <<"m","i","m","x","r","t","1","0","5","0","_","e","v","k",":"," ","a","b">>,
   <<"\"","n","e","t",":"," ","a","b","\"">>,
   <<" ","R","e","v","e","r","t"," ","\"","n","e","t",":"," ","a","b","\"">>,
   <<"n","e","t","w","o","r","k",":"," ","a","b">>,
   <<"_","s","e","t","u","p","_","n","e","w","_","t","h","r","e","a","d",":"," ","a","b">>,
   <<"b","o","a","r","d","s","/","a","r","m",":"," ","a","b">>}

\* 'Revert "' + shortlog + '"'
RevertShortlog(sl) == RevertMarker \o <<"\"">> \o sl \o <<"\"">>

\* namespace + ': ' + shortlog
NamespacedShortlog(ns, sl) == ns \o <<":", " ">> \o sl

UpperCh(c) ==
  IF \E i \in 1..26 : LowerCase[i] = c
  THEN UpperCase[CHOOSE i \in 1..26 : LowerCase[i] = c]
  ELSE c

\* The places of the ':' separators that end the first k segments.
Separators(sl) == {i \in 1..Len(sl) : sl[i] = ":"}

\* The k-th ':' of the shortlog; 0 when there are fewer.
RECURSIVE NthSeparator(_, _)
NthSeparator(sl, k) ==
  LET after == IF k = 1 THEN 0 ELSE NthSeparator(sl, k - 1)
      later == {i \in Separators(sl) : i > after}
  IN  IF (k > 1 /\ after = 0) \/ later = {} THEN 0
      ELSE CHOOSE i \in later : \A j \in later : i <= j

\* The k-th segment of the shortlog, without the white space around it.
Segment(sl, k) ==
  StripChars(SubSeq(sl, (IF k = 1 THEN 0 ELSE NthSeparator(sl, k - 1)) + 1,
                    NthSeparator(sl, k) - 1), Whitespace)

\* The shortlog with its k-th segment in upper case.
UpperSegment(sl, k) ==
  LET from == IF k = 1 THEN 0 ELSE NthSeparator(sl, k - 1)
      to   == NthSeparator(sl, k)
  IN  [i \in 1..Len(sl) |->
         IF from < i /\ i < to THEN UpperCh(sl[i]) ELSE sl[i]]

\* The k-th segment is one the classifier inspects as an area prefix or as a
\* pass-through namespace: the segment ends with a ':', only pass-through
\* namespaces stand in front of it, and neither the shortlog nor what
\* follows one of these namespaces is a revert.
InspectedSegment(sl, k) ==
  /\ ~shortlog_is_revert(sl)
  /\ NthSeparator(sl, k) # 0
  /\ \A j \in 1..(k - 1) :
       /\ Segment(sl, j) \in PassThrough
       /\ ~shortlog_is_revert(
            StripChars(DropFirst(sl, NthSeparator(sl, j)), Whitespace))

\* A shortlog is put on trial.
ClassifierInit ==
  /\ trial_shortlog \in BaseShortlogs
  /\ trial_area = <<>>
  /\ derived_from = <<>>
  /\ pc = "trial"
  /\ sha_to_area = <<>>
  /\ area_by_shortlog = [given |-> FALSE, prefix_area_map |-> <<>>]
  /\ edit_dist_threshold = 3
  /\ upstream_new = <<>>
  /\ upstream_commit_range = <<>>
  /\ upstream_area_patches = <<>>
  /\ upstream_area_counts = <<>>
  /\ ci = 1
  /\ downstream_only = <<>>
  /\ di = 1
  /\ downstream_outstanding = <<>>
  /\ stderr = <<>>
  /\ upstream_downstream = <<>>
  /\ likely_merged = <<>>
  /\ mi = 1
  /\ raised = <<>>
  /\ result = <<>>
  /\ NoRepository
  /\ args = <<>>
  /\ NoNotes

\* What a trial leaves alone.
analysis_vars ==
  <<config, pc, upstream_vars, fold_vars, match_vars, raised, result,
    repo_vars, args, notes_vars>>

\* shortlog_area(shortlog)
ClassifyShortlog ==
  /\ trial_area = <<>>
  /\ trial_area' = <<shortlog_area(trial_shortlog)>>
  /\ UNCHANGED <<analysis_vars, trial_shortlog, derived_from>>

\* derived_from once the shortlog on trial is rewritten.
Rewritten(how) ==
  Append(derived_from,
         [how |-> how, from |-> trial_shortlog, area |-> trial_area[1]])

\* The next trial is of the revert of the classified shortlog, as git revert
\* words it.
RevertOf ==
  /\ trial_area # <<>>
  /\ Len(derived_from) < MaxRewrites
  /\ trial_shortlog' = RevertShortlog(trial_shortlog)
  /\ trial_area' = <<>>
  /\ derived_from' = Rewritten("revert")
  /\ UNCHANGED analysis_vars

\* The next trial is of the classified shortlog under a pass-through
\* namespace.
PassThroughOf ==
  /\ trial_area # <<>>
  /\ Len(derived_from) < MaxRewrites
  /\ \E ns \in PassThrough :
       trial_shortlog' = NamespacedShortlog(ns, trial_shortlog)
  /\ trial_area' = <<>>
  /\ derived_from' = Rewritten("pass-through")
  /\ UNCHANGED analysis_vars

\* The next trial is of the classified shortlog with one inspected prefix
\* segment in upper case.
CaseChangeOf ==
  /\ trial_area # <<>>
  /\ Len(derived_from) < MaxRewrites
  /\ \E k \in 1..2 :
       /\ InspectedSegment(trial_shortlog, k)
       /\ UpperSegment(trial_shortlog, k) # trial_shortlog
       /\ trial_shortlog' = UpperSegment(trial_shortlog, k)
  /\ trial_area' = <<>>
  /\ derived_from' = Rewritten("case")
  /\ UNCHANGED analysis_vars

ClassifierNext ==
  \/ ClassifyShortlog
  \/ RevertOf
  \/ PassThroughOf
  \/ CaseChangeOf

ClassifierSpec == ClassifierInit /\ [][ClassifierNext]_vars

(***************************************************************************)
(* The command-line entry point.  Each -A/--set-area and                   *)
(* -p/--set-area-prefix argument is taken as the pair its split(':')       *)
(* yields.                                                                 *)
(***************************************************************************)

\* The command lines tried: no override; the two override maps; a commit id
\* under a label that is no area; a prefix under a label that is no area.
CommandLines ==
  {[set_area |-> <<>>, set_area_prefix |-> <<>>],
   [set_area |-> ShaToArea, set_area_prefix |-> PrefixAreaMap],
   [set_area |-> << <<(<<"d","4">>), "Misc">> >>, set_area_prefix |-> <<>>],
   [set_area |-> <<>>,
    set_area_prefix |-> << <<(<<"n","z","z">>), "Misc">>,
                           <<(<<"n","e","t">>), "Testing">> >>]}

\* The script is started with a command line.
CliInit ==
  /\ args \in {<<a>> : a \in CommandLines}
  /\ pc = "cli"
  /\ sha_to_area = <<>>
  /\ area_by_shortlog = [given |-> FALSE, prefix_area_map |-> <<>>]
  /\ edit_dist_threshold = 3
  /\ upstream_new = <<>>
  /\ upstream_commit_range = <<>>
  /\ upstream_area_patches = <<>>
  /\ upstream_area_counts = <<>>
  /\ ci = 1
  /\ downstream_only = <<>>
  /\ di = 1
  /\ downstream_outstanding = <<>>
  /\ stderr = <<>>
  /\ upstream_downstream = <<>>
  /\ likely_merged = <<>>
  /\ mi = 1
  /\ raised = <<>>
  /\ result = <<>>
  /\ NoRepository
  /\ NoTrial
  /\ NoNotes

\* dict built by 'd[key] = value' over the pairs in order.
RECURSIVE DictOf(_)
DictOf(pairs) ==
  IF pairs = <<>> THEN <<>>
  ELSE DictSet(DictOf(SubSeq(pairs, 1, Len(pairs) - 1)),
               pairs[Len(pairs)][1], pairs[Len(pairs)][2])

\* The --set-area arguments whose label is not in AREAS.
InvalidSetArea ==
  {i \in 1..Len(args[1].set_area) : args[1].set_area[i][2] \notin AreaSet}

\* 'if area not in AREAS: ... sys.exit(1)'
RejectSetArea ==
  /\ pc = "cli"
  /\ InvalidSetArea # {}
  /\ pc' = "exited"
  /\ UNCHANGED <<config, upstream_vars, fold_vars, match_vars, raised, result,
                 repo_vars, trial_vars, args, notes_vars>>

\* The rest of __main__ and main() up to analyzer.analyze(): sha_to_area
\* from --set-area, area_by_shortlog from --set-area-prefix (None when the
\* option is not given), the default edit_dist_threshold.
ParseArgs ==
  /\ pc = "cli"
  /\ InvalidSetArea = {}
  /\ sha_to_area' = DictOf(args[1].set_area)
  /\ area_by_shortlog' =
       IF args[1].set_area_prefix # <<>>
       THEN [given |-> TRUE,
             prefix_area_map |-> DictOf(args[1].set_area_prefix)]
       ELSE [given |-> FALSE, prefix_area_map |-> <<>>]
  /\ pc' = "start"
  /\ UNCHANGED <<edit_dist_threshold, upstream_vars, fold_vars, match_vars,
                 raised, result, repo_vars, trial_vars, args, notes_vars>>

\* 'except UnknownCommitsError as e: ... sys.exit(1)'
ExitOnUnknownCommits ==
  /\ pc = "raised"
  /\ raised[1].type = "UnknownCommitsError"
  /\ pc' = "exited"
  /\ UNCHANGED <<config, upstream_vars, fold_vars, match_vars, raised, result,
                 repo_vars, trial_vars, args, notes_vars>>

CliNext ==
  \/ RejectSetArea
  \/ ParseArgs
  \/ NewUpstream
  \/ Classify
  \/ RaiseUnknown
  \/ CountAreas
  \/ FoldMerge
  \/ FoldRevertMissing
  \/ FoldRevert
  \/ FoldDuplicate
  \/ FoldInsert
  \/ FilterAuthors
  \/ Match
  \/ Return
  \/ ExitOnUnknownCommits

CliSpec == CliInit /\ [][CliNext]_vars

(***************************************************************************)
(* The release-notes writer of prep-release-notes.py:                      *)
(* repo_mergeup_highlights prints, mergeup by mergeup, the highlight       *)
(* paragraphs of the mergeup commit messages as '- heading:' / 'summary:'  *)
(* entries.  What is printed is kept entry by entry: the banner of a       *)
(* mergeup, the comment of a section header, a heading, a summary          *)
(* paragraph (the text before textwrap fills it), the closing warning.     *)
(***************************************************************************)

\* The longest list of highlight paragraphs of one mergeup.
MaxParagraphs == 3

IMPORTANT_CHANGES == <<<<"i","m","p","o","r","t","a","n","t"," ","c","h","a","n","g","e","s","\n","-","-","-","-","-","-","-","-","-","-","-","-","-","-","-","-","-">>>>

FEATURES == <<<<"f","e","a","t","u","r","e","s","\n","-","-","-","-","-","-","-","-">>>>

BUG_FIXES == <<<<"b","u","g"," ","f","i","x","e","s","\n","-","-","-","-","-","-","-","-","-">>>>

section_headers == IMPORTANT_CHANGES \o FEATURES \o BUG_FIXES

\* str.lower()
lower(s) == [i \in 1..Len(s) |-> LowerCh(s[i])]

\* str.splitlines()
RECURSIVE splitlines(_)
splitlines(s) ==
  IF s = <<>> THEN <<>>
  ELSE IF Find(s, "\n") = 0 THEN <<s>>
  ELSE <<SubSeq(s, 1, Find(s, "\n") - 1)>> \o splitlines(DropFirst(s, Find(s, "\n")))

is_section_header(paragraph) ==
  \E i \in 1..Len(section_headers) : section_headers[i] = lower(paragraph)

\* A non-empty single-line paragraph which ends in a colon.
is_heading(paragraph) ==
  /\ paragraph # <<>>
  /\ Len(splitlines(paragraph)) = 1
  /\ EndsWith(paragraph, <<":">>)

emit_heading(o, heading) == Append(o, [kind |-> "heading", text |-> heading])

emit_summary_para(o, summary) == Append(o, [kind |-> "summary", text |-> summary])

TODO == <<"T","O","D","O">>

\* The mergeup commits of the range, in the order of mergeup_commits.
Mergeups == <<"m1", "m2">>

\* The paragraphs a mergeup message can have among its highlights: a section
\* header in capitals, a heading, a one-line text, a text of two lines that
\* ends in a colon.
Paragraphs ==
  {<<"F","e","a","t","u","r","e","s","\n","-","-","-","-","-","-","-","-">>,
   <<"a",":">>,
   <<"a","b">>,
   <<"a","\n","b",":">>}

\* What mergeup_highlights can return for a mergeup.
HighlightLists == UNION {[1..k -> Paragraphs] : k \in 0..MaxParagraphs}

NotesInit ==
  /\ pc = "mergeups"
  /\ NoNotes
  /\ sha_to_area = <<>>
  /\ area_by_shortlog = [given |-> FALSE, prefix_area_map |-> <<>>]
  /\ edit_dist_threshold = 3
  /\ upstream_new = <<>>
  /\ upstream_commit_range = <<>>
  /\ upstream_area_patches = <<>>
  /\ upstream_area_counts = <<>>
  /\ ci = 1
  /\ downstream_only = <<>>
  /\ di = 1
  /\ downstream_outstanding = <<>>
  /\ stderr = <<>>
  /\ upstream_downstream = <<>>
  /\ likely_merged = <<>>
  /\ mi = 1
  /\ raised = <<>>
  /\ result = <<>>
  /\ NoRepository
  /\ NoTrial
  /\ args = <<>>

notes_rest ==
  <<config, upstream_vars, fold_vars, match_vars, result, repo_vars,
    trial_vars, args>>

\* A turn of 'for m, hls in highlights.items()' for a mergeup without
\* highlights.
MergeupWithoutHighlights ==
  /\ pc = "mergeups"
  /\ mergeup_i <= Len(Mergeups)
  /\ state' = "seeking_heading"
  /\ have_headings' = FALSE
  /\ hls' = <<>>
  /\ missing' = Append(missing, Mergeups[mergeup_i])
  /\ mergeup_i' = mergeup_i + 1
  /\ UNCHANGED <<pc, hl_i, out, raised, notes_rest>>

\* The start of a turn of that loop for a mergeup with highlights.
MergeupWithHighlights ==
  /\ pc = "mergeups"
  /\ mergeup_i <= Len(Mergeups)
  /\ state' = "seeking_heading"
  /\ have_headings' = FALSE
  /\ hls' \in HighlightLists \ {<<>>}
  /\ hl_i' = 1
  /\ out' = Append(out, [kind |-> "mergeup", text |-> <<Mergeups[mergeup_i]>>])
  /\ pc' = "highlights"
  /\ UNCHANGED <<mergeup_i, missing, raised, notes_rest>>

\* SectionHeader, were the state machine left as it is.
SectionHeader_no_reset ==
  /\ pc = "highlights"
  /\ hl_i <= Len(hls)
  /\ is_section_header(hls[hl_i])
  /\ out' = Append(out, [kind |-> "section", text |-> splitlines(hls[hl_i])[1]])
  /\ hl_i' = hl_i + 1
  /\ UNCHANGED <<pc, mergeup_i, hls, state, have_headings, missing, raised,
                 notes_rest>>

\* 'if is_section_header(hl)'
SectionHeader ==
  /\ pc = "highlights"
  /\ hl_i <= Len(hls)
  /\ is_section_header(hls[hl_i])
  /\ out' = Append(out, [kind |-> "section", text |-> splitlines(hls[hl_i])[1]])
  /\ state' = "seeking_heading"
  /\ have_headings' = FALSE
  /\ hl_i' = hl_i + 1
  /\ UNCHANGED <<pc, mergeup_i, hls, missing, raised, notes_rest>>

\* 'elif state == 'seeking_heading''
SeekingHeading ==
  /\ pc = "highlights"
  /\ hl_i <= Len(hls)
  /\ ~is_section_header(hls[hl_i])
  /\ state = "seeking_heading"
  /\ IF is_heading(hls[hl_i])
     THEN /\ out' = emit_heading(out, RStrip(hls[hl_i], {":"}))
          /\ have_headings' = TRUE
     ELSE /\ have_headings' = FALSE
          /\ out' = emit_summary_para(emit_heading(out, TODO), hls[hl_i])
  /\ state' = "seeking_summary"
  /\ hl_i' = hl_i + 1
  /\ UNCHANGED <<pc, mergeup_i, hls, missing, raised, notes_rest>>

\* 'elif state == 'seeking_summary'', and the 'else' after it.
SeekingSummary ==
  /\ pc = "highlights"
  /\ hl_i <= Len(hls)
  /\ ~is_section_header(hls[hl_i])
  /\ state # "seeking_heading"
  /\ IF state = "seeking_summary"
     THEN /\ out' = IF ~have_headings
                    THEN emit_summary_para(emit_heading(out, TODO), hls[hl_i])
                    ELSE IF is_heading(hls[hl_i])
                    THEN emit_heading(out, RStrip(hls[hl_i], {":"}))
                    ELSE emit_summary_para(out, hls[hl_i])
          /\ hl_i' = hl_i + 1
          /\ UNCHANGED <<pc, raised>>
     ELSE /\ raised' = <<[type |-> "RuntimeError", args |-> <<state>>]>>
          /\ pc' = "raised"
          /\ UNCHANGED <<out, hl_i>>
  /\ UNCHANGED <<mergeup_i, hls, state, have_headings, missing, notes_rest>>

\* The end of 'for hl in hls': on to the next mergeup.
EndOfHighlights ==
  /\ pc = "highlights"
  /\ hl_i > Len(hls)
  /\ mergeup_i' = mergeup_i + 1
  /\ pc' = "mergeups"
  /\ UNCHANGED <<hls, hl_i, state, have_headings, out, missing, raised, notes_rest>>

\* 'if missing: ...' and 'return out.getvalue()'
ReturnNotes ==
  /\ pc = "mergeups"
  /\ mergeup_i > Len(Mergeups)
  /\ out' = IF missing # <<>>
            THEN Append(out, [kind |-> "warning", text |-> <<>>])
                   \o [i \in 1..Len(missing) |->
                         [kind |-> "missing", text |-> <<missing[i]>>]]
            ELSE out
  /\ pc' = "returned"
  /\ UNCHANGED <<mergeup_i, hls, hl_i, state, have_headings, missing, raised,
                 notes_rest>>

NotesNext ==
  \/ MergeupWithoutHighlights
  \/ MergeupWithHighlights
  \/ SectionHeader
  \/ SeekingHeading
  \/ SeekingSummary
  \/ EndOfHighlights
  \/ ReturnNotes

NotesSpec == NotesInit /\ [][NotesNext]_vars

(***************************************************************************)
(* Properties of the outstanding-patch fold                                *)
(***************************************************************************)

\* The commit the fold is about to process, when there is one.
FoldPending == pc = "fold" /\ di <= Len(downstream_only)

FoldCommit == downstream_only[di]

\* The commit the fold processed last.
FoldedCommit == downstream_only[di - 1]

\* The entries of a dict whose key is not the given one, in order.
Without(d, key) == SelectSeq(d, LAMBDA e : e[1] # key)

\* The fold is about to process an ordinary commit whose shortlog is live.
DuplicatePending ==
  /\ FoldPending
  /\ parents[FoldCommit] <= 1
  /\ ~StartsWith(commit_shortlog(FoldCommit), RevertMarker)
  /\ DictHas(downstream_outstanding, commit_shortlog(FoldCommit))

\* C1: a non-merge, non-revert downstream-only commit whose shortlog is a
\* live key of the outstanding map aborts the analysis with the
\* duplicate-shortlog error: the step raises it, no record is returned, the
\* matching stage has not begun, and nothing runs after an exception.
C1_DuplicateAborts ==
  [][/\ DuplicatePending =>
          /\ pc' = "raised"
          /\ raised' = <<[type |-> "NotImplementedError",
                          args |-> <<commit_shortlog(FoldCommit)>>]>>
          /\ result' = <<>>
          /\ upstream_downstream' = <<>> /\ likely_merged' = <<>> /\ mi' = 1
     /\ raised = <<>>]_vars

\* A duplicate shortlog was met and the analysis stopped there.
C1_Witness ==
  /\ pc = "raised"
  /\ raised # <<>>
  /\ raised[1].type = "NotImplementedError"
  /\ \E i \in 1..(di - 1) :
       /\ parents[downstream_only[i]] <= 1
       /\ commit_shortlog(downstream_only[i]) = commit_shortlog(downstream_only[di])

\* The fold is about to process a non-merge revert of the shortlog S.
RevertPending(S) ==
  /\ FoldPending
  /\ parents[FoldCommit] <= 1
  /\ StartsWith(commit_shortlog(FoldCommit), RevertMarker)
  /\ S = shortlog_reverts_what(commit_shortlog(FoldCommit))

\* The shortlogs and revert targets of the commits git can list.
Shortlogs ==
  {commit_shortlog(c) : c \in DownstreamPool} \cup
  {shortlog_reverts_what(commit_shortlog(c)) : c \in DownstreamPool}

FoldDone ==
  \/ pc = "fold" /\ di > Len(downstream_only)
  \/ pc \in {"match", "returned"}

\* The positions of the non-merge commits that mention S: as their own
\* shortlog, or as the target of their revert.
Mentions(S) ==
  {i \in 1..Len(downstream_only) :
     /\ parents[downstream_only[i]] <= 1
     /\ \/ commit_shortlog(downstream_only[i]) = S
        \/ /\ StartsWith(commit_shortlog(downstream_only[i]), RevertMarker)
           /\ shortlog_reverts_what(commit_shortlog(downstream_only[i])) = S}

LastMention(S) == CHOOSE i \in Mentions(S) : \A j \in Mentions(S) : j <= i

\* The last non-merge commit that mentions S is an ordinary commit with
\* shortlog S.
LastMentionIntroduces(S) ==
  /\ Mentions(S) # {}
  /\ ~StartsWith(commit_shortlog(downstream_only[LastMention(S)]), RevertMarker)
  /\ commit_shortlog(downstream_only[LastMention(S)]) = S

\* C3: when the fold does not abort, the final outstanding map has the key S
\* exactly when the last non-merge commit that mentions S is an ordinary
\* commit with shortlog S, and it maps S to that commit.
C3_OutstandingIsUnreverted ==
  FoldDone =>
    \A S \in Shortlogs :
      /\ DictHas(downstream_outstanding, S) <=> LastMentionIntroduces(S)
      /\ DictHas(downstream_outstanding, S) =>
           DictGet(downstream_outstanding, S) = downstream_only[LastMention(S)]

\* A patch followed only by its revert: the returned map is empty.
C3_Witness ==
  /\ pc = "returned"
  /\ Len(downstream_only) = 2
  /\ parents[downstream_only[1]] <= 1
  /\ parents[downstream_only[2]] <= 1
  /\ StartsWith(commit_shortlog(downstream_only[2]), RevertMarker)
  /\ shortlog_reverts_what(commit_shortlog(downstream_only[2])) =
       commit_shortlog(downstream_only[1])
  /\ result[1].downstream_outstanding_patches = <<>>

\* C4: a downstream-only commit with more than one parent changes nothing
\* in the outstanding map and raises nothing, whatever its shortlog is; the
\* fold goes on to the next commit.
C4_MergeIsSkipped ==
  [][(FoldPending /\ parents[FoldCommit] > 1) =>
       /\ downstream_outstanding' = downstream_outstanding
       /\ raised' = <<>>
       /\ pc' = "fold"
       /\ di' = di + 1]_vars

\* The fold has passed a merge commit whose shortlog reverts a live key and
\* a merge commit whose shortlog is a live key; the key is still live.
C4_Witness ==
  /\ pc = "fold"
  /\ \E i, j \in 1..(di - 1) :
       /\ parents[downstream_only[i]] > 1
       /\ StartsWith(commit_shortlog(downstream_only[i]), RevertMarker)
       /\ DictHas(downstream_outstanding,
                  shortlog_reverts_what(commit_shortlog(downstream_only[i])))
       /\ parents[downstream_only[j]] > 1
       /\ DictHas(downstream_outstanding, commit_shortlog(downstream_only[j]))
       /\ DictGet(downstream_outstanding, commit_shortlog(downstream_only[j]))
            # downstream_only[j]

\* C5: a non-merge revert whose target is not a live key is reported on
\* stderr, leaves the map as it is, and the fold goes on to the next commit
\* without raising.
C5_UnmatchedRevertWarns ==
  [][\A S \in Shortlogs :
       (RevertPending(S) /\ ~DictHas(downstream_outstanding, S)) =>
          /\ stderr' = Append(stderr, S)
          /\ downstream_outstanding' = downstream_outstanding
          /\ raised' = <<>>
          /\ pc' = "fold"
          /\ di' = di + 1]_vars

\* An analysis that warned about a revert and still returned its record,
\* with a patch processed after the warning outstanding.
C5_Witness ==
  /\ pc = "returned"
  /\ Len(downstream_only) >= 2
  /\ parents[downstream_only[1]] <= 1
  /\ StartsWith(commit_shortlog(downstream_only[1]), RevertMarker)
  /\ stderr # <<>>
  /\ stderr[1] = shortlog_reverts_what(commit_shortlog(downstream_only[1]))
  /\ DictHas(downstream_outstanding, commit_shortlog(downstream_only[2]))

(***************************************************************************)
(* Properties of the classification of the new-upstream commits            *)
(***************************************************************************)

\* The elements of a list.
Range(list) == {list[i] : i \in 1..Len(list)}

\* The key of upstream_area_patches whose list holds the commit.
Filed(c) ==
  upstream_area_patches[CHOOSE i \in 1..Len(upstream_area_patches) :
                          c \in Range(upstream_area_patches[i][2])][1]

IsFiled(c) ==
  \E i \in 1..Len(upstream_area_patches) : c \in Range(upstream_area_patches[i][2])

\* The positions of the sha_to_area entries whose key starts the commit id.
ShaHits(c) ==
  {i \in 1..Len(sha_to_area) :
     /\ Len(sha_to_area[i][1]) <= Len(oid[c])
     /\ \A k \in 1..Len(sha_to_area[i][1]) : sha_to_area[i][1][k] = oid[c][k]}

\* What the shortlog-prefix override says of the commit; None when there is
\* no override or it does not know the prefix.
PrefixOverride(c) ==
  IF /\ area_by_shortlog.given
     /\ DictHas(area_by_shortlog.prefix_area_map,
                shortlog_area_prefix(commit_shortlog(c)))
  THEN DictGet(area_by_shortlog.prefix_area_map,
               shortlog_area_prefix(commit_shortlog(c)))
  ELSE None

\* The area by precedence: commit-id override, shortlog-prefix override,
\* catalog.
ResolvedArea(c) ==
  IF ShaHits(c) # {}
  THEN sha_to_area[CHOOSE i \in ShaHits(c) : \A j \in ShaHits(c) : i <= j][2]
  ELSE IF PrefixOverride(c) # None THEN PrefixOverride(c)
  ELSE commit_area[c]

\* The new-upstream commits without an area, in new-upstream order.
Unclassified == SelectSeq(upstream_new, LAMBDA c : ResolvedArea(c) = None)

UnknownCommitsRaised ==
  /\ raised # <<>>
  /\ raised[1].type = "UnknownCommitsError"

\* C6: when a new-upstream commit has no area, analyze fails with
\* UnknownCommitsError; its arguments are exactly the commits without an
\* area, each once and in new-upstream order, and every new-upstream commit
\* was classified before the failure was raised.
C6_UnknownCommitsAreBatched ==
  /\ UnknownCommitsRaised =>
       /\ raised[1].args = Unclassified
       /\ ci = Len(upstream_new) + 1
       /\ \A c \in Range(upstream_new) : IsFiled(c)
  /\ Unclassified # <<>> => pc \in {"classify", "raised"}
  /\ (Unclassified # <<>> /\ pc = "raised") => UnknownCommitsRaised

\* The failure lists two commits: the one after the first commit without an
\* area was looked at too.
C6_Witness ==
  /\ UnknownCommitsRaised
  /\ Len(raised[1].args) >= 2
  /\ raised[1].args[2] = upstream_new[Len(upstream_new)]

\* C7: a returned record has no per-area list and no per-area count under
\* the null area, and every commit of a per-area list resolved to the
\* non-null area it is listed under.
C7_NoNullAreaInRecord ==
  result # <<>> =>
    /\ ~DictHas(result[1].upstream_area_patches, None)
    /\ ~DictHas(result[1].upstream_area_counts, None)
    /\ \A i \in 1..Len(result[1].upstream_area_patches) :
         \A c \in Range(result[1].upstream_area_patches[i][2]) :
           /\ ResolvedArea(c) # None
           /\ ResolvedArea(c) = result[1].upstream_area_patches[i][1]

\* A record was returned for a history with a commit the catalog alone
\* cannot classify.
C7_Witness ==
  /\ result # <<>>
  /\ \E c \in Range(upstream_new) : commit_area[c] = None
  /\ \E c \in Range(upstream_new) : commit_area[c] # None

\* C8: every classified new-upstream commit is filed under the area of the
\* first sha_to_area entry whose key is a prefix of its id; without such an
\* entry under the non-null area the shortlog-prefix override gives its
\* area prefix; otherwise under what the catalog decides.
C8_OverridePrecedence ==
  pc # "start" =>
    \A i \in 1..(ci - 1) :
      /\ IsFiled(upstream_new[i])
      /\ Filed(upstream_new[i]) = ResolvedArea(upstream_new[i])

\* A returned record in which a commit-id override beat a different
\* shortlog-prefix override, and a shortlog-prefix override gave an area to a
\* prefix the catalog does not know.
C8_Witness ==
  /\ result # <<>>
  /\ \E c \in Range(upstream_new) :
       /\ ShaHits(c) # {}
       /\ PrefixOverride(c) # None
       /\ commit_area[c] # None
       /\ Filed(c) # PrefixOverride(c)
       /\ Filed(c) # commit_area[c]
  /\ \E c \in Range(upstream_new) :
       /\ ShaHits(c) = {}
       /\ commit_area[c] = None
       /\ Filed(c) = PrefixOverride(c)
       /\ Filed(c) # None

(***************************************************************************)
(* Properties of the fuzzy merge matcher                                   *)
(***************************************************************************)

\* The commit is in the candidate list of the outstanding shortlog.
Reported(sl, c) ==
  /\ DictHas(likely_merged, sl)
  /\ c \in Range(DictGet(likely_merged, sl))

\* C9: for every outstanding shortlog the matcher has handled and every
\* candidate (a new-upstream commit by a downstream contributor), the
\* candidate is reported exactly when the edit distance between the
\* outstanding shortlog, taken without its sauce tag, and the candidate's
\* shortlog is strictly below edit_dist_threshold.
C9_StrictThreshold ==
  pc \in {"match", "returned"} =>
    \A i \in 1..(mi - 1) :
      \A c \in Range(upstream_downstream) :
        Reported(downstream_outstanding[i][1], c)
          <=> ed(downstream_outstanding[i][1], c) < edit_dist_threshold

\* A returned record with a candidate at distance threshold - 1, reported,
\* and a candidate at distance threshold, not reported.
C9_Witness ==
  /\ pc = "returned"
  /\ \E i \in 1..Len(downstream_outstanding) :
       \E c1, c2 \in Range(upstream_downstream) :
         /\ ed(downstream_outstanding[i][1], c1) = edit_dist_threshold - 1
         /\ Reported(downstream_outstanding[i][1], c1)
         /\ ed(downstream_outstanding[i][1], c2) = edit_dist_threshold
         /\ ~Reported(downstream_outstanding[i][1], c2)

\* C9 as first stated: the candidate is reported exactly when the edit
\* distance between the outstanding shortlog as it stands, sauce tag
\* included, and the candidate's shortlog is strictly below the threshold.
C9_RawDistance ==
  pc \in {"match", "returned"} =>
    \A i \in 1..(mi - 1) :
      \A c \in Range(upstream_downstream) :
        Reported(downstream_outstanding[i][1], c)
          <=> editdistance_eval(downstream_outstanding[i][1], commit_shortlog(c))
                < edit_dist_threshold

\* C10: every commit of every candidate list is a new-upstream commit whose
\* author email ends with a downstream-contributor domain.
C10_CandidatesAreDownstreamAuthored ==
  \A i \in 1..Len(likely_merged) :
    \A c \in Range(likely_merged[i][2]) :
      /\ c \in Range(upstream_new)
      /\ \E sfx \in DownstreamDomains :
           /\ Len(sfx) <= Len(author_email[c])
           /\ \A k \in 1..Len(sfx) :
                author_email[c][Len(author_email[c]) - Len(sfx) + k] = sfx[k]

\* A returned record with a reported candidate, for a history where a commit
\* by another author has the very same shortlog (distance 0) and is not
\* reported.
C10_Witness ==
  /\ pc = "returned"
  /\ \E i \in 1..Len(likely_merged) :
       \E c \in Range(upstream_new) :
         /\ ~(\E sfx \in DownstreamDomains : EndsWith(author_email[c], sfx))
         /\ ed(likely_merged[i][1], c) = 0
         /\ c \notin Range(likely_merged[i][2])


(***************************************************************************)
(* The result map of the matcher.                                          *)
(***************************************************************************)

\* The downstream-authored new-upstream commits within the threshold of an
\* outstanding shortlog.
CandidatesBelowThreshold(sl) ==
  {c \in Range(upstream_new) :
     is_downstream_author(c) /\ ed(sl, c) < edit_dist_threshold}

\* C11: in every returned record, each key of downstream_merged_patches is a
\* key of downstream_outstanding_patches and maps to a non-empty candidate
\* list, and an outstanding shortlog with no candidate below the threshold
\* has no key in downstream_merged_patches.
C11_MergedKeysAreOutstandingWithCandidates ==
  pc = "returned" =>
    LET rec == result[1]
    IN  /\ \A k \in 1..Len(rec.downstream_merged_patches) :
             /\ DictHas(rec.downstream_outstanding_patches,
                        rec.downstream_merged_patches[k][1])
             /\ Len(rec.downstream_merged_patches[k][2]) > 0
        /\ \A i \in 1..Len(rec.downstream_outstanding_patches) :
             LET sl == rec.downstream_outstanding_patches[i][1]
             IN  CandidatesBelowThreshold(sl) = {}
                   => ~DictHas(rec.downstream_merged_patches, sl)

\* A returned record with two outstanding shortlogs, one with a candidate
\* and so a key, one with no candidate although downstream-authored commits
\* are new upstream, and so no key.
C11_Witness ==
  /\ pc = "returned"
  /\ Len(upstream_downstream) > 0
  /\ \E i, j \in 1..Len(result[1].downstream_outstanding_patches) :
       LET sl1 == result[1].downstream_outstanding_patches[i][1]
           sl2 == result[1].downstream_outstanding_patches[j][1]
       IN  /\ DictHas(result[1].downstream_merged_patches, sl1)
           /\ CandidatesBelowThreshold(sl2) = {}
           /\ ~DictHas(result[1].downstream_merged_patches, sl2)

\* s is t with some elements left out: the elements of s occur in t, in the
\* order of s, at distinct places.
IsSubsequence(s, t) ==
  \E f \in [1..Len(s) -> 1..Len(t)] :
    /\ \A i \in 1..Len(s) : t[f[i]] = s[i]
    /\ \A i, j \in 1..Len(s) : i < j => f[i] < f[j]

\* No element occurs twice in the list.
NoRepeats(list) ==
  \A i, j \in 1..Len(list) : i # j => list[i] # list[j]

\* C12: each candidate list of downstream_merged_patches is a subsequence of
\* the new-upstream commit list: the candidates are in the order they have
\* there, and no commit is twice in one list.
C12_CandidatesInUpstreamOrder ==
  pc = "returned" =>
    \A k \in 1..Len(result[1].downstream_merged_patches) :
      /\ IsSubsequence(result[1].downstream_merged_patches[k][2], upstream_new)
      /\ NoRepeats(result[1].downstream_merged_patches[k][2])

\* A returned record with a candidate list of two commits.
C12_Witness ==
  /\ pc = "returned"
  /\ \E k \in 1..Len(result[1].downstream_merged_patches) :
       Len(result[1].downstream_merged_patches[k][2]) >= 2


(***************************************************************************)
(* The revision ranges.                                                    *)
(***************************************************************************)

\* The walk of new upstream commits was made.
Walked == repo # <<>> /\ merge_base # <<>>

\* C13: the new-upstream commit list is exactly the set of commits reachable
\* from upstream_ref and not reachable from the merge base of downstream_ref
\* and upstream_ref (a common ancestor of the two that no other common
\* ancestor descends from), each once, and every commit comes after all of
\* its parents that are in the list.
C13_NewUpstreamIsUpstreamSinceMergeBase ==
  Walked =>
    LET g  == repo[1]
        mb == merge_base[1]
    IN  /\ mb \in Reachable(g, downstream_ref) \cap Reachable(g, upstream_ref)
        /\ \A x \in Reachable(g, downstream_ref) \cap Reachable(g, upstream_ref) :
             mb \in Reachable(g, x) => x = mb
        /\ Range(upstream_new) = Reachable(g, upstream_ref) \ Reachable(g, mb)
        /\ NoRepeats(upstream_new)
        /\ \A i, j \in 1..Len(upstream_new) :
             upstream_new[j] \in g[upstream_new[i]] => j < i

\* A walk of three commits or more that holds a merge and both its parents,
\* in a repository where the merge base hides more than the root commit.
C13_Witness ==
  /\ Walked
  /\ Len(upstream_new) >= 3
  /\ merge_base[1] # 1
  /\ \E i \in 1..Len(upstream_new) :
       /\ Cardinality(repo[1][upstream_new[i]]) = 2
       /\ repo[1][upstream_new[i]] \subseteq Range(upstream_new)

\* C14: the downstream-only commit list is exactly the set of commits
\* reachable from downstream_ref and not reachable from upstream_ref,
\* commits older than the merge base included, each once and oldest first;
\* no commit of it is reachable from upstream_ref.
C14_DownstreamOnlyIsStrictDifference ==
  pc = "listed" =>
    LET g == repo[1]
    IN  /\ Range(downstream_only) =
             Reachable(g, downstream_ref) \ Reachable(g, upstream_ref)
        /\ NoRepeats(downstream_only)
        /\ \A i, j \in 1..Len(downstream_only) :
             i < j => downstream_only[i] < downstream_only[j]
        /\ \A c \in Range(downstream_only) :
             c \notin Reachable(g, upstream_ref)

\* A downstream-only list of two commits or more whose first commit is
\* older than the merge base.
C14_Witness ==
  /\ pc = "listed"
  /\ Len(downstream_only) >= 2
  /\ downstream_only[1] < merge_base[1]

\* C15: every commit counted as a new upstream patch is not reachable from
\* downstream_ref, also in histories where downstream_ref and upstream_ref
\* have more than one merge base.
C15_NewUpstreamNotInDownstream ==
  Walked =>
    \A c \in Range(upstream_new) :
      c \notin Reachable(repo[1], downstream_ref)

\* The path is no repository, or a ref names no commit of the repository.
AccessFails ==
  \/ repo_path # "zephyr"
  \/ /\ repo # <<>>
     /\ \/ revparse_single(repo[1], downstream_ref) = <<>>
        \/ revparse_single(repo[1], upstream_ref) = <<>>

\* C16: if the path is no valid repository, or downstream_ref or
\* upstream_ref does not resolve to a commit, analyze fails with
\* InvalidRepositoryError naming the unresolved path or ref, and returns no
\* record.
C16_AccessFailureIsInvalidRepositoryError ==
  (AccessFails /\ pc \notin {"start", "opened"}) =>
    /\ pc = "raised"
    /\ raised[1].type = "InvalidRepositoryError"
    /\ \/ repo_path # "zephyr" /\ raised[1].args = <<repo_path>>
       \/ /\ repo # <<>>
          /\ \E ref \in {downstream_ref, upstream_ref} :
               /\ revparse_single(repo[1], ref) = <<>>
               /\ raised[1].args = <<ref>>
    /\ result = <<>>


(***************************************************************************)
(* The classifier.                                                         *)
(***************************************************************************)

\* The shortlog on trial was made by a rewrite of this kind and is
\* classified.
ClassifiedAfter(how) ==
  /\ trial_area # <<>>
  /\ derived_from # <<>>
  /\ derived_from[Len(derived_from)].how = how

\* The area of the shortlog the one on trial was made from.
AreaBefore == derived_from[Len(derived_from)].area

\* C17: for every shortlog X, classifying 'Revert "X"' yields the same area,
\* or the same unknown result, as classifying X, also when X is itself a
\* revert.
C17_RevertKeepsArea ==
  ClassifiedAfter("revert") => trial_area[1] = AreaBefore

\* C18: for every shortlog X, classifying 'subsys: X' or 'include: X' yields
\* the same result as classifying X, also when X starts with a pass-through
\* namespace itself.
C18_PassThroughKeepsArea ==
  ClassifiedAfter("pass-through") => trial_area[1] = AreaBefore

\* C19: changing the letter case of a prefix segment the classifier inspects,
\* the area prefix or a pass-through namespace in front of it, never changes
\* the resolved area.
C19_CaseInsensitive ==
  ClassifiedAfter("case") => trial_area[1] = AreaBefore

\* The shortlog the trials started from.
BaseShortlog ==
  IF derived_from = <<>> THEN trial_shortlog ELSE derived_from[1].from

\* The shortlog on trial is a shortlog without ':', unwrapped or wrapped in
\* reverts and pass-through namespaces only.
NoSeparatorInside ==
  /\ ~Contains(BaseShortlog, ":")
  /\ \A i \in 1..Len(derived_from) :
       derived_from[i].how \in {"revert", "pass-through"}

\* C20: a shortlog that has no ':' left once reverts are unwrapped and
\* pass-through namespaces skipped resolves to no area, also when a catalog
\* pattern accepts its whole text, and so does the empty shortlog.
C20_NoSeparatorNoArea ==
  (trial_area # <<>> /\ NoSeparatorInside) => trial_area[1] = None

\* A shortlog without ':' that a catalog pattern accepts whole, classified
\* under a revert and a pass-through namespace.
C20_Witness ==
  /\ trial_area # <<>>
  /\ NoSeparatorInside
  /\ FirstMatch(BaseShortlog) # None
  /\ \E i, j \in 1..Len(derived_from) :
       derived_from[i].how = "revert" /\ derived_from[j].how = "pass-through"


\* The prefix of the shortlog on trial.
TrialPrefix == shortlog_area_prefix(trial_shortlog)

\* The areas with a pattern that accepts the whole text.
AreasAccepting(text) ==
  {SHORTLOG_RE_TO_AREA[i][2] :
     i \in {j \in 1..Len(SHORTLOG_RE_TO_AREA) :
              fullmatch(SHORTLOG_RE_TO_AREA[j][1], text)}}

\* C21: a shortlog resolves to area A only if it has a prefix and some
\* pattern of A accepts the entire trimmed prefix.
C21_OnlyFullMatchResolves ==
  (trial_area # <<>> /\ trial_area[1] # None) =>
    /\ TrialPrefix # NoPrefix
    /\ trial_area[1] \in AreasAccepting(TrialPrefix)

\* A shortlog that resolves to no area although a pattern accepts a proper
\* leading part of its prefix ('network' against 'net(/.*)?').
C21_Witness ==
  /\ trial_area = <<None>>
  /\ TrialPrefix # NoPrefix
  /\ \E n \in 1..(Len(TrialPrefix) - 1) :
       AreasAccepting(SubSeq(TrialPrefix, 1, n)) # {}

C23_RecordAreasInCatalog ==
  pc = "returned" =>
    /\ \A i \in 1..Len(result[1].upstream_area_counts) :
         result[1].upstream_area_counts[i][1] \in AreaSet
    /\ \A i \in 1..Len(result[1].upstream_area_patches) :
         result[1].upstream_area_patches[i][1] \in AreaSet


(***************************************************************************)
(* The per-area lists and counts.                                          *)
(***************************************************************************)

\* C24: each per-area list of upstream_area_patches is in chronological
\* order with the most recent new upstream patch first: a commit that the
\* oldest-first walk of upstream history yields later stands earlier in its
\* list.
C24_PerAreaNewestFirst ==
  pc = "returned" =>
    \A k \in 1..Len(result[1].upstream_area_patches) :
      LET patches == result[1].upstream_area_patches[k][2]
      IN  \A i, j \in 1..Len(patches) :
            i < j => walk_order[patches[i]] > walk_order[patches[j]]


RECURSIVE SumOfCounts(_)
SumOfCounts(counts) ==
  IF counts = <<>> THEN 0 ELSE counts[1][2] + SumOfCounts(Tail(counts))

KeysOf(d) == {d[i][1] : i \in 1..Len(d)}

\* C25: in every returned record upstream_area_counts and
\* upstream_area_patches have the same keys, each count is the length of the
\* list of its area, every new upstream commit stands in exactly one per-area
\* list (and once in it), and the counts add up to the number of new
\* upstream commits.
C25_CountsAgreeWithPatches ==
  pc = "returned" =>
    LET counts  == result[1].upstream_area_counts
        patches == result[1].upstream_area_patches
    IN  /\ KeysOf(counts) = KeysOf(patches)
        /\ \A a \in KeysOf(patches) :
              Cardinality({k \in 1..Len(counts) : counts[k][1] = a}) = 1
              /\ \A k \in 1..Len(counts), l \in 1..Len(patches) :
                    counts[k][1] = a /\ patches[l][1] = a =>
                      counts[k][2] = Len(patches[l][2])
        /\ \A i \in 1..Len(upstream_new) :
              Cardinality({<<l, p>> \in (1..Len(patches)) \X (1..MaxUpstream + 1) :
                             /\ p <= Len(patches[l][2])
                             /\ patches[l][2][p] = upstream_new[i]}) = 1
        /\ SumOfCounts(counts) = Len(upstream_new)

\* Two new upstream commits of one area were counted.
C25_Witness ==
  /\ pc = "returned"
  /\ Len(upstream_new) = 2
  /\ \E k \in 1..Len(result[1].upstream_area_counts) :
        result[1].upstream_area_counts[k][2] = 2


(***************************************************************************)
(* The order of the checks.                                                *)
(***************************************************************************)

\* C26: the unknown-area check is decided before any downstream-only commit
\* is processed.  The downstream-only history is read only once the check
\* has passed, so whatever that history holds (a duplicate shortlog, a
\* revert without its target), an analysis with an unclassifiable new
\* upstream commit never lists or folds a downstream commit, raises no
\* duplicate-shortlog error, writes no warning, and ends, if it ends, with
\* UnknownCommitsError.
C26_UnknownCheckBeforeDownstream ==
  Unclassified # <<>> =>
    /\ downstream_only = <<>>
    /\ di = 1
    /\ downstream_outstanding = <<>>
    /\ stderr = <<>>
    /\ result = <<>>
    /\ raised # <<>> => raised[1].type # "NotImplementedError"

\* The analysis ended with UnknownCommitsError, the downstream history unread.
C26_Witness ==
  /\ pc = "raised"
  /\ UnknownCommitsRaised
  /\ Unclassified # <<>>
  /\ downstream_only = <<>>


(***************************************************************************)
(* The fold, step by step.                                                 *)
(***************************************************************************)

\* The place of a commit in the downstream-only list.
PlaceOf(c) == CHOOSE i \in 1..Len(downstream_only) : downstream_only[i] = c

\* The commit at place k brings back a shortlog that an earlier commit had
\* and a revert between the two took away, nothing after that revert
\* mentioning it.
ReintroducedAt(k) ==
  LET S == commit_shortlog(downstream_only[k])
  IN  /\ parents[downstream_only[k]] <= 1
      /\ ~StartsWith(S, RevertMarker)
      /\ \E i, j \in 1..(k - 1) :
            /\ i < j
            /\ parents[downstream_only[i]] <= 1
            /\ commit_shortlog(downstream_only[i]) = S
            /\ parents[downstream_only[j]] <= 1
            /\ StartsWith(commit_shortlog(downstream_only[j]), RevertMarker)
            /\ shortlog_reverts_what(commit_shortlog(downstream_only[j])) = S
            /\ \A m \in Mentions(S) : ~(j < m /\ m < k)

OriginalOf(sl) == shortlog_reverts_what(shortlog_reverts_what(sl))

\* C28: at every step of the fold no key of the outstanding map is a revert
\* marker (a shortlog that starts with 'Revert '), and every value is a
\* commit with at most one parent whose shortlog is its key; so the fold of
\* a revert of a revert never puts the original patch back: if the original
\* shortlog is in the map right after, it is there for an earlier commit
\* that nothing reverted since.
C28_OutstandingHoldsPatchesOnly ==
  /\ \A e \in 1..Len(downstream_outstanding) :
        /\ ~StartsWith(downstream_outstanding[e][1], RevertMarker)
        /\ parents[downstream_outstanding[e][2]] <= 1
        /\ commit_shortlog(downstream_outstanding[e][2]) =
             downstream_outstanding[e][1]
  /\ \A k \in 1..Len(downstream_only) :
        LET sl == commit_shortlog(downstream_only[k])
        IN  (/\ pc = "fold"
             /\ di = k + 1
             /\ parents[downstream_only[k]] <= 1
             /\ StartsWith(sl, RevertMarker)
             /\ StartsWith(StripChars(DropFirst(sl, Len(RevertMarker)), {"\""}),
                           RevertMarker)
             /\ DictHas(downstream_outstanding, OriginalOf(sl)))
            => \E i \in 1..(k - 1) :
                 /\ downstream_only[i] =
                      DictGet(downstream_outstanding, OriginalOf(sl))
                 /\ \A m \in Mentions(OriginalOf(sl)) : ~(i < m /\ m < k)

\* A patch, its revert and the revert of that revert were folded, and the
\* map is empty.
C28_Witness ==
  /\ pc = "fold"
  /\ di = 4
  /\ Len(downstream_only) = 3
  /\ parents[downstream_only[1]] <= 1
  /\ parents[downstream_only[2]] <= 1
  /\ parents[downstream_only[3]] <= 1
  /\ StartsWith(commit_shortlog(downstream_only[2]), RevertMarker)
  /\ shortlog_reverts_what(commit_shortlog(downstream_only[2])) =
       commit_shortlog(downstream_only[1])
  /\ StartsWith(commit_shortlog(downstream_only[3]), RevertMarker)
  /\ OriginalOf(commit_shortlog(downstream_only[3])) =
       commit_shortlog(downstream_only[1])
  /\ downstream_outstanding = <<>>


(***************************************************************************)
(* The range of new upstream commits.                                      *)
(***************************************************************************)

\* The commits of the per-area lists of a record.
Listed(patches) ==
  UNION {Range(patches[l][2]) : l \in 1..Len(patches)}

\* C29: in every returned record upstream_commit_range is the pair of the
\* first and the last new upstream commit, and both stand in some per-area
\* list; when there is no new upstream commit analyze returns no record: it
\* fails as it computes the range, before it classifies or lists any commit.
C29_RangeIsFirstAndLast ==
  /\ pc = "returned" =>
        /\ upstream_new # <<>>
        /\ result[1].upstream_commit_range =
             <<upstream_new[1], upstream_new[Len(upstream_new)]>>
        /\ upstream_new[1] \in Listed(result[1].upstream_area_patches)
        /\ upstream_new[Len(upstream_new)] \in
             Listed(result[1].upstream_area_patches)
  /\ (pc # "start" /\ upstream_new = <<>>) =>
        /\ pc = "raised"
        /\ raised # <<>>
        /\ raised[1].type = "IndexError"
        /\ result = <<>>
        /\ ci = 1
        /\ upstream_area_patches = <<>>
        /\ upstream_area_counts = <<>>
        /\ downstream_only = <<>>
        /\ downstream_outstanding = <<>>

\* The walk found no new upstream commit and analyze failed on the range.
C29_Witness ==
  /\ pc = "raised"
  /\ upstream_new = <<>>
  /\ raised # <<>>
  /\ raised[1].type = "IndexError"


(***************************************************************************)
(* The highlights state machine of the release-notes writer.               *)
(***************************************************************************)

\* C30: in the highlights state machine, whatever the highlight paragraphs,
\* the state is 'seeking_heading' or 'seeking_summary' and the invalid-state
\* error is never raised; right after a section header the state is
\* 'seeking_heading' and have_headings is false; and every summary paragraph
\* comes after a '- heading:' entry printed since the last section header
\* (and since the banner of its mergeup), so none is printed without a
\* heading that owns it.
C30_SummariesHaveHeadings ==
  /\ state \in {"seeking_heading", "seeking_summary"}
  /\ raised # <<>> => raised[1].type # "RuntimeError"
  /\ (pc = "highlights" /\ hl_i > 1 /\ is_section_header(hls[hl_i - 1])) =>
        (state = "seeking_heading" /\ ~have_headings)
  /\ \A s \in 1..Len(out) :
        out[s].kind = "summary" =>
          \E h \in 1..(s - 1) :
            /\ out[h].kind = "heading"
            /\ \A t \in h..s : out[t].kind \notin {"section", "mergeup"}

\* A section header, an annotated heading and its summary were printed.
C30_Witness ==
  /\ pc = "returned"
  /\ \E h \in 2..(Len(out) - 1) :
        /\ out[h - 1].kind = "section"
        /\ out[h].kind = "heading"
        /\ out[h].text # TODO
        /\ out[h + 1].kind = "summary"

====
